---- MODULE Spec2Model ----
(***************************************************************************)
(* Model of arborio's per-map undo/redo history (AppState::apply_map_event *)
(* in crates/state/src/data/project_map.rs) together with the action       *)
(* engine it drives.  One loaded map (MapState) is modelled: its document, *)
(* undo_buffer, redo_buffer and event_phase.  The action engine            *)
(* (apply_map_action), EventPhase, UNDO_BUFFER_SIZE and save() live in     *)
(* crates whose source is not part of the tree; they are modelled from the *)
(* specification (sections 4.3 and 4.4) and from the older in-tree apply   *)
(* code in src/app_state.rs.                                               *)
(***************************************************************************)
EXTENDS Integers, Sequences, FiniteSets, TLC

VARIABLES
    map,          \* MapState.map : the document (CelesteMap)
    undo_buffer,  \* MapState.undo_buffer : VecDeque<MapAction>, back = last element
    redo_buffer,  \* MapState.redo_buffer : VecDeque<MapAction>
    event_phase,  \* MapState.event_phase : EventPhase
    saved,        \* the document content last written by a successful save()
    event,        \* the last MapEvent::Action object emitted: its RefCell and merge_phase
    ev1,          \* history: record of the most recent event handled
    ev2,          \* history: record of the event before ev1
    ev3,          \* history: record of the event before ev2
    pre,          \* history: map.levels before the most recent event
    run,          \* history: the current run of same-phase actions
    since_undo,   \* history: no action was applied since the last Undo/Redo
    issued,       \* number of phase tokens issued by EventPhase::new()
    steps,        \* number of events handled so far
    call,         \* codec / tile patch: the arguments of the call being made
    ret,          \* codec / tile patch: what the call returned and wrote
    app,          \* AppState: tabs, current_tab, poison_tab, loaded maps, modules
    widget,       \* the state a view keeps between its events (DeleteState)
    tool          \* the tool in use (RoomTool) and the rooms it works on

vars == <<map, undo_buffer, redo_buffer, event_phase, saved, event, ev1, ev2, ev3,
         pre, run, since_undo, issued, steps, call, ret, app, widget, tool>>

\* the application shell, the views and the tools
ui_vars == <<app, widget, tool>>

(***************************************************************************)
(* Bounds of the model.                                                    *)
(***************************************************************************)
\* number of events handled in one behaviour
MaxSteps == 4
\* number of phase tokens EventPhase::new() issues (tokens 1..MaxPhase)
MaxPhase == 2

(***************************************************************************)
(* Program constants.                                                      *)
(***************************************************************************)
\* capacity of the undo buffer (a fixed constant N in the program; a small
\* value here so that eviction happens within MaxSteps events)
UNDO_BUFFER_SIZE == 2

\* EventPhase::null(): the null token
NullPhase == 0

None == [none |-> TRUE]

\* no application shell, view or tool is part of the behaviour
NoUi == app = None /\ widget = None /\ tool = None

\* the tokens an action may carry when n tokens have been issued: the null
\* token, the newest token (a gesture that continues), or a new one
\* (EventPhase::new(), the next unused token)
Phases(n) == {p \in {NullPhase, n, n + 1} : p <= MaxPhase}

\* `a != b` on EventPhase.  The null token is always-distinct: it never
\* compares equal to anything, itself included.
EventPhase_ne(a, b) == a # b \/ a = NullPhase

(***************************************************************************)
(* The document.                                                           *)
(***************************************************************************)
\* the value an entity carries besides its id (name, position, attributes)
EntityVals == {1, 2}

\* cell values of the foreground tile grid; "0" is the default (air) tile
Tiles == {"0", "a"}

\* "\0": the cell value of a tile patch that means "do not touch"
TileIgnore == "~"

Entity(id, val) == [id |-> id, val |-> val]

\* room width in tiles (the tile grid has RoomWidth columns and one row)
RoomWidth == 1

Level(entities, triggers, tiles, nid) ==
    [entities |-> entities, triggers |-> triggers,
     fg_tiles |-> tiles, next_id |-> nid]

\* The parts of a document the history must restore: per level, the tile
\* grid and the entity and trigger lists (not the dirty flag, not the id
\* counter).
DocOf(levels) ==
    [i \in DOMAIN levels |->
        [entities |-> levels[i].entities,
         triggers |-> levels[i].triggers,
         fg_tiles |-> levels[i].fg_tiles]]

Doc(m) == DocOf(m.levels)

(***************************************************************************)
(* Tile grids.  A TileGrid is a flat row-major cell array with a row       *)
(* stride; a TilePoint is <<x, y>>.                                        *)
(***************************************************************************)
TileGrid(tiles, stride) == [tiles |-> tiles, stride |-> stride]

\* TileGrid::get_mut: the 1-based index of the cell at pt, or 0 (None)
\* when pt lies outside [0, width) x [0, height)
TileGrid_get_mut(grid, pt) ==
    IF pt[1] < 0 \/ pt[1] >= grid.stride \/ pt[2] < 0
    THEN 0
    ELSE IF pt[1] + pt[2] * grid.stride + 1 <= Len(grid.tiles)
         THEN pt[1] + pt[2] * grid.stride + 1
         ELSE 0

\* a walk that never starts a new line
apply_tiles_step_noline(st, idx, data, stride, ignore) ==
    LET tile == data.tiles[idx + 1]
        at == TileGrid_get_mut(TileGrid(st.tiles, stride), st.cur)
        write == tile # ignore /\ at # 0 /\ st.tiles[at] # tile
        tiles == IF write THEN [st.tiles EXCEPT ![at] = tile] ELSE st.tiles
    IN [tiles |-> tiles, dirty |-> st.dirty \/ write,
        line_start |-> st.line_start, cur |-> <<st.cur[1] + 1, st.cur[2]>>]

\* a walk whose dirty flag only remembers the last cell
apply_tiles_step_lastdirty(st, idx, data, stride, ignore) ==
    LET tile == data.tiles[idx + 1]
        at == TileGrid_get_mut(TileGrid(st.tiles, stride), st.cur)
        write == tile # ignore /\ at # 0 /\ st.tiles[at] # tile
        tiles == IF write THEN [st.tiles EXCEPT ![at] = tile] ELSE st.tiles
        newline == (idx + 1) % data.stride = 0
        line_start == IF newline
                      THEN <<st.line_start[1], st.line_start[2] + 1>>
                      ELSE st.line_start
        cur == IF newline THEN line_start ELSE <<st.cur[1] + 1, st.cur[2]>>
    IN [tiles |-> tiles, dirty |-> write,
        line_start |-> line_start, cur |-> cur]

\* a walk that sets dirty on every write, also one that changes nothing
apply_tiles_step_alwaysdirty(st, idx, data, stride, ignore) ==
    LET tile == data.tiles[idx + 1]
        at == TileGrid_get_mut(TileGrid(st.tiles, stride), st.cur)
        write == tile # ignore /\ at # 0
        tiles == IF write THEN [st.tiles EXCEPT ![at] = tile] ELSE st.tiles
        newline == (idx + 1) % data.stride = 0
        line_start == IF newline
                      THEN <<st.line_start[1], st.line_start[2] + 1>>
                      ELSE st.line_start
        cur == IF newline THEN line_start ELSE <<st.cur[1] + 1, st.cur[2]>>
    IN [tiles |-> tiles, dirty |-> st.dirty \/ write,
        line_start |-> line_start, cur |-> cur]

\* one iteration of the loop of apply_tiles: st is [tiles, dirty,
\* line_start, cur], idx the 0-based index into data.tiles
apply_tiles_step(st, idx, data, stride, ignore) ==
    LET tile == data.tiles[idx + 1]
        at == TileGrid_get_mut(TileGrid(st.tiles, stride), st.cur)
        write == tile # ignore /\ at # 0 /\ st.tiles[at] # tile
        tiles == IF write THEN [st.tiles EXCEPT ![at] = tile] ELSE st.tiles
        newline == (idx + 1) % data.stride = 0
        line_start == IF newline
                      THEN <<st.line_start[1], st.line_start[2] + 1>>
                      ELSE st.line_start
        cur == IF newline THEN line_start ELSE <<st.cur[1] + 1, st.cur[2]>>
    IN [tiles |-> tiles, dirty |-> st.dirty \/ write,
        line_start |-> line_start, cur |-> cur]

RECURSIVE apply_tiles_loop(_, _, _, _, _)
apply_tiles_loop(st, idx, data, stride, ignore) ==
    IF idx >= Len(data.tiles)
    THEN st
    ELSE apply_tiles_loop(apply_tiles_step(st, idx, data, stride, ignore),
                          idx + 1, data, stride, ignore)

\* apply_tiles(offset, data, target, ignore): the target grid afterwards and
\* the returned dirty flag
apply_tiles(offset, data, target, ignore) ==
    LET st == apply_tiles_loop(
                  [tiles |-> target.tiles, dirty |-> FALSE,
                   line_start |-> offset, cur |-> offset],
                  0, data, target.stride, ignore)
    IN [target |-> TileGrid(st.tiles, target.stride), dirty |-> st.dirty]

(***************************************************************************)
(* The action engine: apply_map_action(map, action) applies one MapAction  *)
(* to the document and returns Ok(inverse) or Err.  Results are records    *)
(* [ok, room/map, inv].                                                    *)
(***************************************************************************)
EntityAdd(room, entity, trigger, genid) ==
    [type |-> "EntityAdd", room |-> room, entity |-> entity,
     trigger |-> trigger, genid |-> genid]

EntityUpdate(room, entity, trigger) ==
    [type |-> "EntityUpdate", room |-> room, entity |-> entity,
     trigger |-> trigger]

EntityRemove(room, id, trigger) ==
    [type |-> "EntityRemove", room |-> room, id |-> id, trigger |-> trigger]

TileUpdate(room, offset, data) ==
    [type |-> "TileUpdate", room |-> room, offset |-> offset, data |-> data]

\* indices of the entities of a list that carry the given id
Matching(list, id) == {i \in DOMAIN list : list[i].id = id}

Min(S) == CHOOSE x \in S : \A y \in S : x <= y

\* the list without the entities that carry the given id (the removal loop)
WithoutId(list, id) == SelectSeq(list, LAMBDA e : e.id # id)

EntityList(room, trigger) == IF trigger THEN room.triggers ELSE room.entities

SetEntityList(room, trigger, list) ==
    IF trigger THEN [room EXCEPT !.triggers = list]
               ELSE [room EXCEPT !.entities = list]

\* an add whose generated id is the length of the list plus one
apply_EntityAdd_bylength(room, a) ==
    LET id == IF a.genid THEN Len(EntityList(room, a.trigger)) + 1
                         ELSE a.entity.id
        entity == [a.entity EXCEPT !.id = id]
    IN [ok |-> TRUE,
        room |-> SetEntityList(room, a.trigger,
                               Append(EntityList(room, a.trigger), entity)),
        inv |-> EntityRemove(a.room, id, a.trigger)]

\* EntityAdd: a generated id comes from the level's counter (next_id); the
\* inverse of a remove adds the removed value under its original id.  The
\* entity is pushed at the end of its list.  Inverse: remove by id.
apply_EntityAdd(room, a) ==
    LET id == IF a.genid THEN room.next_id ELSE a.entity.id
        entity == [a.entity EXCEPT !.id = id]
        counted == IF a.genid THEN [room EXCEPT !.next_id = @ + 1] ELSE room
    IN [ok |-> TRUE,
        room |-> SetEntityList(counted, a.trigger,
                               Append(EntityList(room, a.trigger), entity)),
        inv |-> EntityRemove(a.room, id, a.trigger)]

\* EntityUpdate: replaces the entity with the same id (entity_mut); fails
\* when there is none.  Inverse: an update carrying the replaced value.
apply_EntityUpdate(room, a) ==
    LET list == EntityList(room, a.trigger)
        found == Matching(list, a.entity.id)
    IN IF found = {}
       THEN [ok |-> FALSE, room |-> room, inv |-> None]
       ELSE [ok |-> TRUE,
             room |-> SetEntityList(room, a.trigger,
                                    [list EXCEPT ![Min(found)] = a.entity]),
             inv |-> EntityUpdate(a.room, list[Min(found)], a.trigger)]

\* EntityRemove: removes the entities with the given id; fails when there is
\* none.  Inverse: an add carrying the removed value and its id.
apply_EntityRemove(room, a) ==
    LET list == EntityList(room, a.trigger)
        found == Matching(list, a.id)
    IN IF found = {}
       THEN [ok |-> FALSE, room |-> room, inv |-> None]
       ELSE [ok |-> TRUE,
             room |-> SetEntityList(room, a.trigger, WithoutId(list, a.id)),
             inv |-> EntityAdd(a.room, list[Min(found)], a.trigger, FALSE)]

\* the patch that writes back the cells a tile patch overwrote: the old
\* value where the patch wrote, the sentinel elsewhere
TileInverse(offset, data, target, ignore) ==
    LET pos(i) == <<offset[1] + ((i - 1) % data.stride),
                    offset[2] + ((i - 1) \div data.stride)>>
        at(i) == TileGrid_get_mut(target, pos(i))
    IN TileGrid([i \in DOMAIN data.tiles |->
                    IF data.tiles[i] # ignore /\ at(i) # 0
                    THEN target.tiles[at(i)]
                    ELSE ignore],
                data.stride)

\* TileUpdate: patches the foreground grid with apply_tiles
apply_TileUpdate(room, a) ==
    LET target == TileGrid(room.fg_tiles, RoomWidth)
        r == apply_tiles(a.offset, a.data, target, TileIgnore)
    IN [ok |-> TRUE,
        room |-> [room EXCEPT !.fg_tiles = r.target.tiles],
        inv |-> TileUpdate(a.room, a.offset,
                           TileInverse(a.offset, a.data, target, TileIgnore))]

apply_room_action(room, a) ==
    CASE a.type = "EntityAdd" -> apply_EntityAdd(room, a)
      [] a.type = "EntityUpdate" -> apply_EntityUpdate(room, a)
      [] a.type = "EntityRemove" -> apply_EntityRemove(room, a)
      [] a.type = "TileUpdate" -> apply_TileUpdate(room, a)

\* MapAction::RoomAction { idx, event }: a room action addresses
\* map.levels[idx] (0-based room index); an index that names no room is an
\* error
apply_room_action_at(m, a) ==
    IF a.room + 1 \notin DOMAIN m.levels
    THEN [ok |-> FALSE, map |-> m, inv |-> None]
    ELSE LET r == apply_room_action(m.levels[a.room + 1], a)
         IN [ok |-> r.ok,
             map |-> [m EXCEPT !.levels[a.room + 1] = r.room],
             inv |-> r.inv]

\* MapAction::Batched { events }
Batched(events) == [type |-> "Batched", events |-> events]

\* a batch that passes over a failing sub-operation
batched_step_skip(st, r) ==
    IF r.ok THEN [ok |-> TRUE, map |-> r.map, invs |-> <<r.inv>> \o st.invs]
    ELSE st

\* the sub-operation k of a batch once it was applied with result r: the
\* state of the loop afterwards.  st is [ok, map, invs]: whether every
\* sub-operation so far succeeded, the document, and the inverses so far,
\* the latest first
batched_step(st, r) ==
    IF ~st.ok THEN st
    ELSE IF r.ok THEN [ok |-> TRUE, map |-> r.map, invs |-> <<r.inv>> \o st.invs]
    ELSE [ok |-> FALSE, map |-> r.map, invs |-> st.invs]

\* MapAction::Batched: the sub-operations are applied in order; the first
\* failure ends the batch, with the earlier sub-operations left applied
RECURSIVE apply_batched(_, _, _)
apply_batched(st, events, k) ==
    IF k > Len(events) \/ ~st.ok
    THEN st
    ELSE apply_batched(
             batched_step(st, apply_room_action_at(st.map, events[k])),
             events, k + 1)

\* the result of a batch: the inverse is the batch of the sub-inverses in
\* reverse order
batched_result(st) ==
    [ok |-> st.ok, map |-> st.map,
     inv |-> IF st.ok THEN Batched(st.invs) ELSE None]

\* apply_map_action(map, action)
apply_map_action(m, a) ==
    IF a.type = "Batched"
    THEN batched_result(apply_batched([ok |-> TRUE, map |-> m, invs |-> <<>>],
                                      a.events, 1))
    ELSE apply_room_action_at(m, a)

(***************************************************************************)
(* The history manager: AppState::apply_map_event on one loaded map.  st   *)
(* is the MapState [map, undo_buffer, redo_buffer, event_phase].           *)
(***************************************************************************)
MapState(m, undo, redo, phase) ==
    [map |-> m, undo_buffer |-> undo, redo_buffer |-> redo,
     event_phase |-> phase]

\* MapID::action: a MapEvent::Action whose RefCell holds Some(action)
MapID_action(phase, action) == [cell |-> action, merge_phase |-> phase]

\* a take() that leaves the payload in the cell (as a borrow would)
take_peek(cell) == [value |-> cell, cell |-> cell]

\* event.borrow_mut().take(): the content of the cell, and the cell left None
take(cell) == [value |-> cell, cell |-> None]

\* a buffer that never evicts
EvictOldest_never(buf) == buf

\* if undo_buffer.len() == UNDO_BUFFER_SIZE { pop_front() }
EvictOldest(buf) == IF Len(buf) = UNDO_BUFFER_SIZE THEN Tail(buf) ELSE buf

\* a merge test that forgets the phase: a new entry only in an empty buffer
IsNewEntry_onlyempty(buf, phase, merge_phase) == buf = <<>>

\* undo_buffer.back().is_none() || event_phase != merge_phase
IsNewEntry(buf, phase, merge_phase) ==
    buf = <<>> \/ EventPhase_ne(phase, merge_phase)

\* an Ok arm that forgets redo_buffer.clear()
ActionOk_keepredo(st, m, undo, merge_phase) ==
    MapState([m EXCEPT !.dirty = TRUE],
             IF IsNewEntry(EvictOldest(st.undo_buffer), st.event_phase, merge_phase)
             THEN Append(EvictOldest(st.undo_buffer), undo)
             ELSE EvictOldest(st.undo_buffer),
             st.redo_buffer,
             merge_phase)

\* the Ok(undo) arm of MapEvent::Action
ActionOk(st, m, undo, merge_phase) ==
    LET evicted == EvictOldest(st.undo_buffer)
    IN MapState([m EXCEPT !.dirty = TRUE],
                IF IsNewEntry(evicted, st.event_phase, merge_phase)
                THEN Append(evicted, undo)
                ELSE evicted,
                <<>>,
                merge_phase)

\* a handler that does the bookkeeping of the Ok arm for a failed action too
MapEvent_Action_errbooks(st, e) ==
    LET t == take(e.cell)
        r == apply_map_action(st.map, t.value)
    IN IF t.value = None
       THEN [st |-> st, cell |-> t.cell, ok |-> FALSE, inv |-> None]
       ELSE IF r.ok
            THEN [st |-> ActionOk(st, r.map, r.inv, e.merge_phase),
                  cell |-> t.cell, ok |-> TRUE, inv |-> r.inv]
            ELSE [st |-> [st EXCEPT !.map = [r.map EXCEPT !.dirty = TRUE],
                                    !.redo_buffer = <<>>,
                                    !.event_phase = e.merge_phase],
                  cell |-> t.cell, ok |-> FALSE, inv |-> None]

\* MapEvent::Action { event, merge_phase }: the MapState and the cell
\* afterwards, whether an action was applied successfully, and its inverse
MapEvent_Action(st, e) ==
    LET t == take(e.cell)
        r == apply_map_action(st.map, t.value)
    IN IF t.value = None
       THEN [st |-> st, cell |-> t.cell, ok |-> FALSE, inv |-> None]
       ELSE IF r.ok
            THEN [st |-> ActionOk(st, r.map, r.inv, e.merge_phase),
                  cell |-> t.cell, ok |-> TRUE, inv |-> r.inv]
            ELSE [st |-> [st EXCEPT !.map = r.map],
                  cell |-> t.cell, ok |-> FALSE, inv |-> None]

\* an Undo that forgets to reset the phase
UndoOk_keepphase(st, m, opposite) ==
    MapState([m EXCEPT !.dirty = TRUE],
             SubSeq(st.undo_buffer, 1, Len(st.undo_buffer) - 1),
             Append(st.redo_buffer, opposite),
             st.event_phase)

\* an Undo that forgets to set the dirty flag
UndoOk_keepdirty(st, m, opposite) ==
    MapState(m,
             SubSeq(st.undo_buffer, 1, Len(st.undo_buffer) - 1),
             Append(st.redo_buffer, opposite),
             NullPhase)

\* the Ok(opposite) arm of MapEvent::Undo
UndoOk(st, m, opposite) ==
    MapState([m EXCEPT !.dirty = TRUE],
             SubSeq(st.undo_buffer, 1, Len(st.undo_buffer) - 1),
             Append(st.redo_buffer, opposite),
             NullPhase)

\* an Undo that puts the entry back when applying it fails
MapEvent_Undo_keepentry(st) ==
    IF st.undo_buffer = <<>>
    THEN [st |-> st, ok |-> FALSE, inv |-> None]
    ELSE LET r == apply_map_action(st.map, st.undo_buffer[Len(st.undo_buffer)])
         IN IF r.ok
            THEN [st |-> UndoOk(st, r.map, r.inv), ok |-> TRUE, inv |-> r.inv]
            ELSE [st |-> [st EXCEPT !.map = r.map], ok |-> FALSE, inv |-> None]

\* MapEvent::Undo
MapEvent_Undo(st) ==
    IF st.undo_buffer = <<>>
    THEN [st |-> st, ok |-> FALSE, inv |-> None]
    ELSE LET popped == SubSeq(st.undo_buffer, 1, Len(st.undo_buffer) - 1)
             r == apply_map_action(st.map, st.undo_buffer[Len(st.undo_buffer)])
         IN IF r.ok
            THEN [st |-> UndoOk(st, r.map, r.inv), ok |-> TRUE, inv |-> r.inv]
            ELSE [st |-> [st EXCEPT !.map = r.map, !.undo_buffer = popped],
                  ok |-> FALSE, inv |-> None]

\* a Redo that forgets undo_buffer.push_back(opposite)
RedoOk_nopush(st, m, opposite) ==
    MapState([m EXCEPT !.dirty = TRUE],
             st.undo_buffer,
             SubSeq(st.redo_buffer, 1, Len(st.redo_buffer) - 1),
             NullPhase)

\* the Ok(opposite) arm of MapEvent::Redo
RedoOk(st, m, opposite) ==
    MapState([m EXCEPT !.dirty = TRUE],
             Append(st.undo_buffer, opposite),
             SubSeq(st.redo_buffer, 1, Len(st.redo_buffer) - 1),
             NullPhase)

\* a Redo that resets the phase also when the redo buffer is empty
MapEvent_Redo_resetsphase(st) ==
    IF st.redo_buffer = <<>>
    THEN [st |-> [st EXCEPT !.event_phase = NullPhase], ok |-> FALSE, inv |-> None]
    ELSE LET popped == SubSeq(st.redo_buffer, 1, Len(st.redo_buffer) - 1)
             r == apply_map_action(st.map, st.redo_buffer[Len(st.redo_buffer)])
         IN IF r.ok
            THEN [st |-> RedoOk(st, r.map, r.inv), ok |-> TRUE, inv |-> r.inv]
            ELSE [st |-> [st EXCEPT !.map = r.map, !.redo_buffer = popped],
                  ok |-> FALSE, inv |-> None]

\* MapEvent::Redo
MapEvent_Redo(st) ==
    IF st.redo_buffer = <<>>
    THEN [st |-> st, ok |-> FALSE, inv |-> None]
    ELSE LET popped == SubSeq(st.redo_buffer, 1, Len(st.redo_buffer) - 1)
             r == apply_map_action(st.map, st.redo_buffer[Len(st.redo_buffer)])
         IN IF r.ok
            THEN [st |-> RedoOk(st, r.map, r.inv), ok |-> TRUE, inv |-> r.inv]
            ELSE [st |-> [st EXCEPT !.map = r.map, !.redo_buffer = popped],
                  ok |-> FALSE, inv |-> None]

\* a Save that also drops the history
MapEvent_Save_clears(st, saved_ok) ==
    IF saved_ok
    THEN [st EXCEPT !.map.dirty = FALSE, !.undo_buffer = <<>>, !.redo_buffer = <<>>]
    ELSE st

\* MapEvent::Save: save() writes the map to its module and may fail
MapEvent_Save(st, saved_ok) ==
    IF saved_ok THEN [st EXCEPT !.map.dirty = FALSE] ELSE st

(***************************************************************************)
(* The state machine.                                                      *)
(***************************************************************************)
St == MapState(map, undo_buffer, redo_buffer, event_phase)

\* the entity ids a tool addresses: entities of the loaded document, entities
\* added since, or stale ids
EntityIds == {1, 2}

\* the room indices a tool addresses: room 0 exists, room 1 does not
Rooms == {0, 1}

\* the actions an editor tool may submit
Payloads ==
    {EntityAdd(0, Entity(0, 1), FALSE, TRUE)}
    \cup {EntityUpdate(0, Entity(1, 2), FALSE)}
    \cup {EntityRemove(0, id, FALSE) : id \in EntityIds}
    \cup {TileUpdate(room, <<0, 0>>, TileGrid(<<"a">>, 1)) : room \in Rooms}

\* the documents a map is loaded with: one room, empty or with two entities
InitialLevels ==
    {Level(<<>>, <<>>, [i \in 1..RoomWidth |-> "0"], 1),
     Level(<<Entity(1, 1), Entity(2, 1)>>, <<>>, [i \in 1..RoomWidth |-> "0"], 3)}

NoEvent ==
    [kind |-> "none", ok |-> FALSE, phase |-> NullPhase, inv |-> None,
     pushed |-> FALSE, before |-> None]

NoRun == [open |-> FALSE, len |-> 0, phase |-> NullPhase, doc |-> None, pushes |-> 0]

\* the record of an event: its kind, whether it applied an action (or saved)
\* successfully, the merge phase of an applied action, the inverse the
\* action engine returned, whether the handler pushed a new undo entry, and
\* the history (undo_buffer, redo_buffer, event_phase, dirty) before it and
\* whether it was the first event to follow an Undo/Redo with no action since
Record(kind, ok, phase, inv, pushed) ==
    [kind |-> kind, ok |-> ok, phase |-> phase, inv |-> inv, pushed |-> pushed,
     before |-> [undo_buffer |-> undo_buffer, redo_buffer |-> redo_buffer,
                 event_phase |-> event_phase, dirty |-> map.dirty,
                 since_undo |-> since_undo]]

Init ==
    /\ \E level \in InitialLevels : map = [levels |-> <<level>>, dirty |-> FALSE]
    /\ undo_buffer = <<>>
    /\ redo_buffer = <<>>
    /\ event_phase = NullPhase
    /\ saved = Doc(map)
    /\ event = None
    /\ ev1 = NoEvent /\ ev2 = NoEvent /\ ev3 = NoEvent
    /\ pre = map.levels
    /\ run = NoRun
    /\ since_undo = FALSE
    /\ issued = 0
    /\ steps = 0
    /\ call = None
    /\ ret = None
    /\ NoUi

SetState(st) ==
    /\ map' = st.map
    /\ undo_buffer' = st.undo_buffer
    /\ redo_buffer' = st.redo_buffer
    /\ event_phase' = st.event_phase

Remember(rec) ==
    /\ ev1' = rec
    /\ ev2' = [ev1 EXCEPT !.before = None]
    /\ ev3' = ev2
    /\ pre' = map.levels
    /\ steps' = steps + 1

\* the run after a successfully applied action with merge phase p
RunAfterAction(p, pushed) ==
    IF run.open /\ run.phase = p
    THEN [run EXCEPT !.len = @ + 1, !.pushes = @ + (IF pushed THEN 1 ELSE 0)]
    ELSE IF p # NullPhase /\ event_phase # p
         THEN [open |-> TRUE, len |-> 1, phase |-> p, doc |-> Doc(map),
               pushes |-> IF pushed THEN 1 ELSE 0]
         ELSE NoRun

\* the handler of a MapEvent::Action, on the event e
Deliver(e, kind) ==
    \E r \in {MapEvent_Action(St, e)} :
       \E pushed \in {r.ok /\ IsNewEntry(EvictOldest(undo_buffer), event_phase,
                                         e.merge_phase)} :
          /\ SetState(r.st)
          /\ event' = [e EXCEPT !.cell = r.cell]
          /\ Remember(Record(kind, r.ok,
                             IF r.ok THEN e.merge_phase ELSE NullPhase,
                             r.inv, pushed))
          /\ run' = IF r.ok THEN RunAfterAction(e.merge_phase, pushed) ELSE NoRun
          /\ since_undo' = IF r.ok THEN FALSE ELSE since_undo
          /\ UNCHANGED <<saved, ret, ui_vars>>

Dispatch(e, kind) == Deliver(e, kind) /\ UNCHANGED call

\* a tool emits a new action event, which is delivered to the handler
EmitAction ==
    /\ steps < MaxSteps
    /\ \E phase \in Phases(issued), action \in Payloads :
           /\ Dispatch(MapID_action(phase, action), "Action")
           /\ issued' = IF phase > issued THEN phase ELSE issued

\* the last action event is delivered to the handler once more
Redispatch ==
    /\ steps < MaxSteps
    /\ event # None
    /\ Dispatch(event, "Redispatch")
    /\ UNCHANGED issued

Undo ==
    /\ steps < MaxSteps
    /\ \E r \in {MapEvent_Undo(St)} :
          /\ SetState(r.st)
          /\ Remember(Record("Undo", r.ok, NullPhase, r.inv, FALSE))
          /\ run' = IF run.open THEN [run EXCEPT !.open = FALSE] ELSE NoRun
          /\ since_undo' = IF r.ok THEN TRUE ELSE since_undo
    /\ UNCHANGED <<saved, event, issued, call, ret, ui_vars>>

Redo ==
    /\ steps < MaxSteps
    /\ \E r \in {MapEvent_Redo(St)} :
          /\ SetState(r.st)
          /\ Remember(Record("Redo", r.ok, NullPhase, r.inv, FALSE))
          /\ since_undo' = IF r.ok THEN TRUE ELSE since_undo
    /\ run' = NoRun
    /\ UNCHANGED <<saved, event, issued, call, ret, ui_vars>>

Save ==
    /\ steps < MaxSteps
    /\ \E saved_ok \in BOOLEAN :
          /\ SetState(MapEvent_Save(St, saved_ok))
          /\ saved' = IF saved_ok THEN Doc(map) ELSE saved
          /\ Remember(Record("Save", saved_ok, NullPhase, None, FALSE))
    /\ run' = NoRun
    /\ UNCHANGED <<event, since_undo, issued, call, ret, ui_vars>>

Next == EmitAction \/ Redispatch \/ Undo \/ Redo \/ Save

Spec == Init /\ [][Next]_vars

(***************************************************************************)
(* Properties.  ev1 is the event handled last, ev2 the one before it, ev3  *)
(* the one before that; pre is map.levels before ev1 and ev1.before the    *)
(* history before ev1.                                                     *)
(***************************************************************************)
\* e applied an action successfully
Applied(e) == e.kind = "Action" /\ e.ok

\* the event handled last left both buffers and the phase as they were
HistoryKept ==
    /\ undo_buffer = ev1.before.undo_buffer
    /\ redo_buffer = ev1.before.redo_buffer
    /\ event_phase = ev1.before.event_phase

\* the event handled last changed nothing at all
NothingChanged ==
    /\ HistoryKept
    /\ map.dirty = ev1.before.dirty
    /\ map.levels = pre

\* the action handled last was recorded as a new undo entry: the buffer is
\* the one before it (without its oldest entry if it was full) followed by
\* the inverse of the action
RecordedAsNewEntry ==
    LET b == ev1.before.undo_buffer
        kept == IF Len(b) = UNDO_BUFFER_SIZE THEN Tail(b) ELSE b
    IN undo_buffer = Append(kept, ev1.inv)

\* the number of entries of a list equal to e
Count(list, e) == Cardinality({i \in DOMAIN list : list[i] = e})

\* two lists hold the same entities, in whatever order
SameEntities(a, b) ==
    /\ Len(a) = Len(b)
    /\ \A i \in DOMAIN a : Count(a, a[i]) = Count(b, a[i])

\* two documents are equal up to the order of their entity lists
SameDoc(d1, d2) ==
    /\ DOMAIN d1 = DOMAIN d2
    /\ \A i \in DOMAIN d1 :
          /\ d1[i].fg_tiles = d2[i].fg_tiles
          /\ SameEntities(d1[i].entities, d2[i].entities)
          /\ SameEntities(d1[i].triggers, d2[i].triggers)

\* C1: when an action was applied successfully and recorded as its own undo
\* entry, an Undo handled right after it succeeds and leaves the document
\* (tile grids, entity and trigger lists of every level) equal to the
\* document before the action.
C1_UndoRestoresDocument ==
    [][(Applied(ev1) /\ ev1.pushed /\ ev1'.kind = "Undo")
         => (ev1'.ok /\ Doc(map') = DocOf(pre))]_vars

\* C2: a run of N >= 1 consecutive successfully applied actions with one
\* non-null phase p, begun when the current phase differed from p, adds
\* exactly one undo entry, and the Undo handled right after the run succeeds
\* and reverts all N edits: the document is the one before the first action
\* of the run (compared up to the order of the entity lists, so that the
\* statement does not depend on C1).
C2_PhaseCoalescing ==
    /\ (run.len >= 1 /\ run.open) => run.pushes = 1
    /\ (run.len >= 1 /\ ~run.open) => (ev1.ok /\ SameDoc(Doc(map), run.doc))

\* C3: after UNDO_BUFFER_SIZE + 1 consecutive successfully applied actions
\* with pairwise distinct phases (the last three events, as UNDO_BUFFER_SIZE
\* is 2), the last action found the buffer full and evicted exactly its
\* oldest entry: the buffer holds UNDO_BUFFER_SIZE entries, the older entries
\* kept in order and the newest being the inverse of the last action.
C3_UndoStackBound ==
    (/\ Applied(ev1) /\ Applied(ev2) /\ Applied(ev3)
     /\ ev1.phase # ev2.phase /\ ev2.phase # ev3.phase /\ ev1.phase # ev3.phase)
    => /\ Len(ev1.before.undo_buffer) = UNDO_BUFFER_SIZE
       /\ undo_buffer = Append(Tail(ev1.before.undo_buffer), ev1.inv)
       /\ Len(undo_buffer) = UNDO_BUFFER_SIZE
       /\ undo_buffer[UNDO_BUFFER_SIZE - 1] = ev2.inv
       /\ undo_buffer[UNDO_BUFFER_SIZE] = ev1.inv

\* three successful actions with pairwise distinct phases were just handled
C3_Witness ==
    /\ Applied(ev1) /\ Applied(ev2) /\ Applied(ev3)
    /\ ev1.phase # ev2.phase /\ ev2.phase # ev3.phase /\ ev1.phase # ev3.phase
    /\ Len(undo_buffer) = UNDO_BUFFER_SIZE

\* the last three events were: an action that added an entity under a
\* generated id and was recorded as an undo entry, a successful Undo, a
\* successful Redo
AddUndoRedo ==
    /\ Applied(ev3) /\ ev3.pushed /\ ev3.inv.type = "EntityRemove"
    /\ ev2.kind = "Undo" /\ ev2.ok
    /\ ev1.kind = "Redo" /\ ev1.ok

\* C4: after an action that adds an entity (recorded as an undo entry), an
\* Undo and a Redo, the entity is in its list again, once, with the id the
\* add gave it and the fields the Undo removed; the redo buffer is empty and
\* the undo buffer ends with the remove-by-id that undoes the add.
C4_RedoRestoresEntity ==
    AddUndoRedo =>
        LET id == ev3.inv.id
            list == EntityList(map.levels[ev3.inv.room + 1], ev3.inv.trigger)
        IN /\ ev2.inv.type = "EntityAdd"
           /\ ev2.inv.entity.id = id
           /\ Count(list, ev2.inv.entity) = 1
           /\ Cardinality(Matching(list, id)) = 1
           /\ redo_buffer = <<>>
           /\ undo_buffer # <<>>
           /\ undo_buffer[Len(undo_buffer)] = ev3.inv

\* an entity was added, the add undone and redone, and the level holds
\* other entities as well
C4_Witness ==
    /\ AddUndoRedo
    /\ Len(map.levels[1].entities) > 1

\* C5: a successful Undo or Redo leaves the null phase, and the first action
\* applied successfully after a successful Undo/Redo is recorded as a new
\* undo entry, whatever its merge phase.
C5_NoMergeAcrossUndo ==
    /\ (ev1.kind \in {"Undo", "Redo"} /\ ev1.ok) => event_phase = NullPhase
    /\ (Applied(ev1) /\ ev1.before.since_undo) => RecordedAsNewEntry

\* a null-phase action was applied right after an Undo that left an entry
\* in the undo buffer
C5_Witness ==
    /\ Applied(ev1) /\ ev1.before.since_undo
    /\ ev1.phase = NullPhase
    /\ ev1.before.undo_buffer # <<>>
    /\ ev2.kind = "Undo" /\ ev2.ok

\* C6: every successfully applied action that carries the null phase is
\* recorded as a new undo entry.
C6_NullPhaseNeverMerges ==
    (Applied(ev1) /\ ev1.phase = NullPhase) => RecordedAsNewEntry

\* two null-phase actions were applied one after the other
C6_Witness ==
    /\ Applied(ev1) /\ ev1.phase = NullPhase
    /\ Applied(ev2) /\ ev2.phase = NullPhase
    /\ ev1.before.undo_buffer # <<>>
    /\ ev1.before.event_phase = NullPhase

\* C7: after every successfully applied action the redo buffer is empty, and
\* a Redo handled right after such an action changes nothing.
C7_RedoInvalidation ==
    /\ Applied(ev1) => redo_buffer = <<>>
    /\ (Applied(ev2) /\ ev1.kind = "Redo") => (~ev1.ok /\ NothingChanged)

\* an action was applied while the redo buffer held an entry, and a Redo
\* followed
C7_Witness ==
    /\ ev3.kind = "Undo" /\ ev3.ok
    /\ Applied(ev2)
    /\ ev1.kind = "Redo"

\* C8: every successfully applied Action, Undo or Redo leaves map.dirty set.
C8_DirtyAfterApply ==
    (ev1.kind \in {"Action", "Undo", "Redo"} /\ ev1.ok) => map.dirty = TRUE

\* an Undo brought the document back to what the last successful Save wrote
C8_Witness ==
    /\ ev3.kind = "Save" /\ ev3.ok
    /\ Applied(ev2)
    /\ ev1.kind = "Undo" /\ ev1.ok
    /\ Doc(map) = saved
    /\ map.dirty

\* C9: a successful Save clears map.dirty and keeps the undo buffer, the redo
\* buffer and the phase; a failed Save keeps them and the dirty flag; neither
\* touches the document.
C9_SaveKeepsHistory ==
    ev1.kind = "Save" =>
        /\ HistoryKept
        /\ map.levels = pre
        /\ map.dirty = (IF ev1.ok THEN FALSE ELSE ev1.before.dirty)

\* a dirty map with entries in both buffers was saved
C9_Witness ==
    /\ ev1.kind = "Save" /\ ev1.ok
    /\ ev1.before.dirty
    /\ undo_buffer # <<>>
    /\ redo_buffer # <<>>

\* C10: once an action event was dispatched its cell is empty, and a later
\* dispatch of the same event changes nothing.
C10_PayloadTakenOnce ==
    /\ event # None => event.cell = None
    /\ ev1.kind = "Redispatch" => (~ev1.ok /\ NothingChanged)

\* an event whose action was applied successfully was dispatched again
C10_Witness ==
    /\ ev1.kind = "Redispatch"
    /\ Applied(ev2)

\* C11: when applying the action of an Action event fails, nothing changes:
\* the document, the undo buffer, the redo buffer, the event phase and the
\* dirty flag are what they were before the event.
C11_FailedActionDropped ==
    (ev1.kind = "Action" /\ ~ev1.ok) => NothingChanged

\* an action failed while the redo buffer held an entry
C11_Witness ==
    /\ ev1.kind = "Action" /\ ~ev1.ok
    /\ ev2.kind = "Undo" /\ ev2.ok
    /\ redo_buffer # <<>>

(***************************************************************************)
(* The codec (map_struct.rs): typed attribute extraction.  A BinEl is      *)
(* [name, attributes, children]; attributes maps attribute names to        *)
(* BinElAttr values, children is the list of child elements.  A text is a  *)
(* sequence of one-character strings.  A float is kept as its number of    *)
(* halves (3 stands for 1.5), which is exact for the values used here.     *)
(* A Result is Ok(v) or Err(e), an Option Some(v) or None.                 *)
(***************************************************************************)
Ok(v) == [ok |-> TRUE, value |-> v]
Err(kind, description) ==
    [ok |-> FALSE, err |-> [kind |-> kind, description |-> description]]
Some(v) == [some |-> v]

BinElAttr_Int(i) == [kind |-> "Int", v |-> i]
BinElAttr_Float(halves) == [kind |-> "Float", v |-> halves]
BinElAttr_Bool(b) == [kind |-> "Bool", v |-> b]
BinElAttr_Text(t) == [kind |-> "Text", v |-> t]

BinEl(name, attributes, children) ==
    [name |-> name, attributes |-> attributes, children |-> children]

\* a decoded f32
F32(halves) == [halves |-> halves]

\* f as i32: truncation toward zero
f32_as_i32(halves) ==
    IF halves >= 0 THEN halves \div 2 ELSE -((-halves) \div 2)

\* i as f32
i32_as_f32(i) == F32(2 * i)

Digits == <<"0", "1", "2", "3", "4", "5", "6", "7", "8", "9">>

RECURSIVE nat_to_string(_)
nat_to_string(n) ==
    IF n < 10 THEN <<Digits[n + 1]>>
    ELSE Append(nat_to_string(n \div 10), Digits[(n % 10) + 1])

\* i.to_string(): the decimal digits, after a minus sign when negative
i32_to_string(i) ==
    IF i < 0 THEN <<"-">> \o nat_to_string(-i) ELSE nat_to_string(i)

\* s.parse::<i32>() on a text: an optional sign and at least one digit
DigitOf(ch) == CHOOSE d \in 0..9 : Digits[d + 1] = ch

RECURSIVE digits_value(_)
digits_value(t) ==
    IF t = <<>> THEN 0
    ELSE 10 * digits_value(SubSeq(t, 1, Len(t) - 1)) + DigitOf(t[Len(t)])

parse_i32(t) ==
    LET signed == t # <<>> /\ t[1] \in {"-", "+"}
        digits == IF signed THEN Tail(t) ELSE t
    IN IF digits = <<>> \/ \E k \in DOMAIN digits : \A d \in 0..9 : Digits[d + 1] # digits[k]
       THEN None
       ELSE Some(IF signed /\ t[1] = "-" THEN -digits_value(digits)
                 ELSE digits_value(digits))

\* {:?} of a BinElAttr, as the pieces of the printed text
Debug(attr) ==
    CASE attr.kind = "Int" -> <<"Int(">> \o i32_to_string(attr.v) \o <<")">>
      [] attr.kind = "Float" ->
            <<"Float(">> \o (IF attr.v < 0 THEN <<"-">> ELSE <<>>)
            \o nat_to_string((IF attr.v < 0 THEN -attr.v ELSE attr.v) \div 2)
            \o <<".", IF attr.v % 2 = 0 THEN "0" ELSE "5", ")">>
      [] attr.kind = "Bool" ->
            <<"Bool(", IF attr.v THEN "true" ELSE "false", ")">>
      [] attr.kind = "Text" -> <<"Text(", "\"">> \o attr.v \o <<"\"", ")">>

\* the types an attribute is requested as, and AttrCoercion::NICE_NAME
AttrTypes == {"i32", "bool", "f32", "String"}

NICE_NAME(T) ==
    CASE T = "i32" -> "integer"
      [] T = "bool" -> "bool"
      [] T = "f32" -> "float"
      [] T = "String" -> "text"

\* Default::default() of the type
default(T) ==
    CASE T = "i32" -> 0
      [] T = "bool" -> FALSE
      [] T = "f32" -> F32(0)
      [] T = "String" -> <<>>

\* a coercion that also reads a bool as the integers 0 and 1
try_coerce_boolnum(T, attr) ==
    CASE T = "i32" ->
            (CASE attr.kind = "Int" -> Some(attr.v)
               [] attr.kind = "Float" -> Some(f32_as_i32(attr.v))
               [] attr.kind = "Bool" -> Some(IF attr.v THEN 1 ELSE 0)
               [] OTHER -> None)
      [] T = "bool" ->
            (IF attr.kind = "Bool" THEN Some(attr.v) ELSE None)
      [] T = "f32" ->
            (CASE attr.kind = "Float" -> Some(F32(attr.v))
               [] attr.kind = "Int" -> Some(i32_as_f32(attr.v))
               [] OTHER -> None)
      [] T = "String" ->
            (CASE attr.kind = "Text" -> Some(attr.v)
               [] attr.kind = "Int" -> Some(i32_to_string(attr.v))
               [] OTHER -> None)

\* <T as AttrCoercion>::try_coerce(attr)
try_coerce(T, attr) ==
    CASE T = "i32" ->
            (CASE attr.kind = "Int" -> Some(attr.v)
               [] attr.kind = "Float" -> Some(f32_as_i32(attr.v))
               [] OTHER -> None)
      [] T = "bool" ->
            (IF attr.kind = "Bool" THEN Some(attr.v) ELSE None)
      [] T = "f32" ->
            (CASE attr.kind = "Float" -> Some(F32(attr.v))
               [] attr.kind = "Int" -> Some(i32_as_f32(attr.v))
               [] OTHER -> None)
      [] T = "String" ->
            (CASE attr.kind = "Text" -> Some(attr.v)
               [] attr.kind = "Int" -> Some(i32_to_string(attr.v))
               [] OTHER -> None)

\* a missing_child whose description leaves out the parent
missing_child_noparent(parent, child) ==
    Err("MissingChild", <<"Expected child: ", child, " not found">>)

\* CelesteMapError::missing_child; a description is the sequence of the
\* pieces format! puts together
missing_child(parent, child) ==
    Err("MissingChild", <<"Expected child of ", parent, ": ", child, " not found">>)

\* a missing_attribute whose description leaves out the element
missing_attribute_noelem(parent, attr) ==
    Err("MissingAttribute", <<"Expected attribute: ", attr, " not found">>)

missing_attribute(parent, attr) ==
    Err("MissingAttribute",
        <<"Expected attribute of ", parent, ": ", attr, " not found">>)

\* the end of get_optional_attr: the coerced value, or BadAttrType with the
\* expected kind and the {:?} of the stored attribute
coerced_or_bad_type(T, attr, coerced) ==
    IF coerced # None
    THEN Ok(coerced)
    ELSE Err("BadAttrType",
             <<"Expected ", NICE_NAME(T), ", found ">> \o Debug(attr))

\* get_optional_attr::<T>(elem, name)
get_optional_attr(T, elem, name) ==
    IF name \in DOMAIN elem.attributes
    THEN coerced_or_bad_type(T, elem.attributes[name],
                             try_coerce(T, elem.attributes[name]))
    ELSE Ok(None)

\* r?.ok_or_else(|| missing_attribute(elem.name, name)) on the Result r of
\* get_optional_attr
ok_or_missing_attribute(r, elem, name) ==
    IF ~r.ok THEN r
    ELSE IF r.value = None THEN missing_attribute(elem.name, name)
    ELSE Ok(r.value.some)

\* get_attr::<T>(elem, name)
get_attr(T, elem, name) ==
    ok_or_missing_attribute(get_optional_attr(T, elem, name), elem, name)

\* r?.unwrap_or_default() on the Result r of get_optional_attr
unwrap_or_default(r, T) ==
    IF ~r.ok THEN r
    ELSE IF r.value = None THEN Ok(default(T))
    ELSE Ok(r.value.some)

\* get_optional_attr(elem, name)?.unwrap_or_default()
get_attr_or_default(T, elem, name) ==
    unwrap_or_default(get_optional_attr(T, elem, name), T)

(***************************************************************************)
(* The codec: children, and the parsers of the parts of a map.             *)
(***************************************************************************)
\* elem.get(name): the children with that name
BinEl_get(elem, name) == SelectSeq(elem.children, LAMBDA c : c.name = name)

\* Some(child) if there is exactly one child of that name
get_optional_child(elem, name) ==
    LET children_of_name == BinEl_get(elem, name)
    IN IF Len(children_of_name) = 1 THEN Some(children_of_name[1]) ELSE None

get_child(elem, name) ==
    LET child == get_optional_child(elem, name)
    IN IF child = None THEN missing_child(elem.name, name) ELSE Ok(child.some)

\* an expect_elem! that accepts every name
expect_elem_any(elem, name) == None

\* expect_elem!(elem, name): the error it returns, or None
expect_elem(elem, name) ==
    IF elem.name # name
    THEN Err("ParseError", <<"Expected ", name, " element, found ", elem.name>>)
    ELSE None

\* the first Err of a sequence of Results, or None: a chain of `?`
first_err(results) ==
    LET bad == {k \in DOMAIN results : ~results[k].ok}
    IN IF bad = {} THEN None ELSE results[Min(bad)]

\* .collect::<Result<Vec<_>, _>>(): the first Err, or the Vec of all values
collect(results) ==
    LET e == first_err(results)
    IN IF e # None THEN e ELSE Ok([k \in DOMAIN results |-> results[k].value])

OutOfRange(elem) ==
    Err("OutOfRange", <<elem.name, " contains out-of-range data">>)

\* the loop of parse_fgbg_tiles over the characters of innerText
RECURSIVE fgbg_loop(_, _, _, _, _, _, _)
fgbg_loop(data, text, x, y, offset_x, width, height) ==
    IF text = <<>> THEN data
    ELSE LET ch == Head(text)
         IN IF ch = "\n"
            THEN fgbg_loop(data, Tail(text), offset_x, y + 1, offset_x, width, height)
            ELSE IF ch = "\r"
            THEN fgbg_loop(data, Tail(text), x, y, offset_x, width, height)
            ELSE IF x >= width \/ y >= height
            THEN fgbg_loop(data, Tail(text), x, y, offset_x, width, height)
            ELSE fgbg_loop([data EXCEPT ![x + y * width + 1] = ch], Tail(text),
                           x + 1, y, offset_x, width, height)

\* a decode that starts at the first row whatever offsetY is
fgbg_tiles_firstrow(elem, width, height, offset_x, offset_y, text) ==
    IF ~offset_x.ok THEN offset_x
    ELSE IF ~offset_y.ok THEN offset_y
    ELSE IF offset_x.value < 0 \/ offset_y.value < 0 THEN OutOfRange(elem)
    ELSE IF ~text.ok THEN text
    ELSE Ok(fgbg_loop([k \in 1..(width * height) |-> "0"], text.value,
                      offset_x.value, 0, offset_x.value, width, height))

\* parse_fgbg_tiles once offsetX, offsetY and innerText are read
fgbg_tiles(elem, width, height, offset_x, offset_y, text) ==
    IF ~offset_x.ok THEN offset_x
    ELSE IF ~offset_y.ok THEN offset_y
    ELSE IF offset_x.value < 0 \/ offset_y.value < 0 THEN OutOfRange(elem)
    ELSE IF ~text.ok THEN text
    ELSE Ok(fgbg_loop([k \in 1..(width * height) |-> "0"], text.value,
                      offset_x.value, offset_y.value, offset_x.value,
                      width, height))

parse_fgbg_tiles(elem, width, height) ==
    fgbg_tiles(elem, width, height,
               get_attr_or_default("i32", elem, "offsetX"),
               get_attr_or_default("i32", elem, "offsetY"),
               get_attr_or_default("String", elem, "innerText"))

\* text.split(sep): the pieces between the separators
RECURSIVE split(_, _)
split(text, sep) ==
    LET at == {k \in DOMAIN text : text[k] = sep}
    IN IF at = {} THEN <<text>>
       ELSE <<SubSeq(text, 1, Min(at) - 1)>>
            \o split(SubSeq(text, Min(at) + 1, Len(text)), sep)

\* a number that is dropped, not refused, when it falls outside the grid
object_num_drop(st, num, ch, y, width, height, elem) ==
    IF ch = None
    THEN Err("ParseError", <<"Could not parse ">> \o num \o <<" as int">>)
    ELSE IF st.x >= width \/ y >= height
    THEN Ok(st)
    ELSE Ok([data |-> [st.data EXCEPT ![st.x + y * width + 1] = ch.some],
             x |-> st.x + 1])

\* one number of a line of parse_object_tiles: ch is its parse; st is
\* [data, x]; the result is the next st, or the Err that ends the parse
object_num(st, num, ch, y, width, height, elem) ==
    IF ch = None
    THEN Err("ParseError", <<"Could not parse ">> \o num \o <<" as int">>)
    ELSE IF st.x >= width \/ y >= height
    THEN OutOfRange(elem)
    ELSE Ok([data |-> [st.data EXCEPT ![st.x + y * width + 1] = ch.some],
             x |-> st.x + 1])

\* the inner loop of parse_object_tiles over the numbers of one line: r is
\* Ok([data, x]) or the Err that ended the parse
RECURSIVE object_line(_, _, _, _, _, _)
object_line(r, nums, y, width, height, elem) ==
    IF ~r.ok THEN r
    ELSE IF nums = <<>> THEN Ok(r.value.data)
    ELSE IF Head(nums) = <<>>
    THEN object_line(r, Tail(nums), y, width, height, elem)
    ELSE object_line(object_num(r.value, Head(nums), parse_i32(Head(nums)),
                                y, width, height, elem),
                     Tail(nums), y, width, height, elem)

\* the outer loop of parse_object_tiles over the lines: r is Ok(data) or the
\* Err that ended the parse
RECURSIVE object_lines(_, _, _, _, _, _, _)
object_lines(r, lines, y, offset_x, width, height, elem) ==
    IF ~r.ok \/ lines = <<>> THEN r
    ELSE object_lines(object_line(Ok([data |-> r.value, x |-> offset_x]),
                                  split(Head(lines), ","), y, width, height,
                                  elem),
                      Tail(lines), y + 1, offset_x, width, height, elem)

\* parse_object_tiles once offsetX, offsetY and innerText are read
object_tiles_read(elem, width, height, offset_x, offset_y, text) ==
    IF ~offset_x.ok THEN offset_x
    ELSE IF ~offset_y.ok THEN offset_y
    ELSE IF offset_x.value < 0 \/ offset_y.value < 0 THEN OutOfRange(elem)
    ELSE IF ~text.ok THEN text
    ELSE object_lines(Ok([k \in 1..(width * height) |-> -1]),
                      split(text.value, "\n"), offset_y.value,
                      offset_x.value, width, height, elem)

parse_object_tiles(elem, width, height) ==
    object_tiles_read(elem, width, height,
                 get_attr_or_default("i32", elem, "offsetX"),
                 get_attr_or_default("i32", elem, "offsetY"),
                 get_attr_or_default("String", elem, "innerText"))

\* a / b on i32: the quotient truncated toward zero
i32_div(a, b) == IF a >= 0 THEN a \div b ELSE -((-a) \div b)

\* v as u32: a negative v wraps to 2^32 + v, which is kept symbolically
as_u32(v) == IF v >= 0 THEN v ELSE [wrapped |-> v]

\* the values of a Result that is known to be Ok(Some(v)) or Ok(None)
unwrap_or(r, dflt) == IF r.value = None THEN dflt ELSE r.value.some

\* one node of an entity, once its x and y are read
entity_node(x, y) ==
    IF ~x.ok THEN x ELSE IF ~y.ok THEN y ELSE Ok(<<x.value, y.value>>)

\* parse_entity_trigger once id, x, y, width, height and the nodes are read
entity_trigger(elem, id, x, y, width, height, nodes) ==
    IF first_err(<<id, x, y, width, height, nodes>>) # None
    THEN first_err(<<id, x, y, width, height, nodes>>)
    ELSE Ok([id |-> id.value, name |-> elem.name, x |-> x.value, y |-> y.value,
             width |-> as_u32(unwrap_or(width, 0)),
             height |-> as_u32(unwrap_or(height, 0)),
             attributes |-> [n \in DOMAIN elem.attributes
                                     \ {"id", "x", "y", "width", "height"} |->
                                elem.attributes[n]],
             nodes |-> nodes.value])

parse_entity_trigger(elem) ==
    entity_trigger(elem,
        get_attr("i32", elem, "id"),
        get_attr("i32", elem, "x"),
        get_attr("i32", elem, "y"),
        get_optional_attr("i32", elem, "width"),
        get_optional_attr("i32", elem, "height"),
        collect([k \in DOMAIN elem.children |->
                    entity_node(get_attr("i32", elem.children[k], "x"),
                                get_attr("i32", elem.children[k], "y"))]))

\* parse_decal once its attributes are read
decal(x, y, scale_x, scale_y, texture) ==
    IF first_err(<<x, y, scale_x, scale_y, texture>>) # None
    THEN first_err(<<x, y, scale_x, scale_y, texture>>)
    ELSE Ok([x |-> x.value, y |-> y.value, scale_x |-> scale_x.value,
             scale_y |-> scale_y.value, texture |-> texture.value])

parse_decal(elem) ==
    decal(get_attr("i32", elem, "x"),
          get_attr("i32", elem, "y"),
          get_attr("f32", elem, "scaleX"),
          get_attr("f32", elem, "scaleY"),
          get_attr("String", elem, "texture"))

\* parse_filler_rect once x, y, w and h are read
filler_rect(x, y, w, h) ==
    IF first_err(<<x, y, w, h>>) # None
    THEN first_err(<<x, y, w, h>>)
    ELSE Ok([origin |-> <<x.value * 8, y.value * 8>>,
             size |-> <<w.value * 8, h.value * 8>>])

parse_filler_rect(elem) ==
    IF expect_elem(elem, "rect") # None THEN expect_elem(elem, "rect")
    ELSE filler_rect(get_attr("i32", elem, "x"),
                     get_attr("i32", elem, "y"),
                     get_attr("i32", elem, "w"),
                     get_attr("i32", elem, "h"))

\* the optional attributes of a styleground, in the order they are read
StylegroundAttrs ==
    << <<"texture", "String">>, <<"x", "i32">>, <<"y", "i32">>,
       <<"loopx", "bool">>, <<"loopy", "bool">>,
       <<"scrollx", "f32">>, <<"scrolly", "f32">>,
       <<"speedx", "f32">>, <<"speedy", "f32">>,
       <<"color", "String">>, <<"blendmode", "String">> >>

\* parse_styleground once its attributes are read
styleground(elem, attrs) ==
    IF first_err(attrs) # None THEN first_err(attrs)
    ELSE Ok([name |-> elem.name,
             attrs |-> [k \in DOMAIN attrs |-> attrs[k].value]])

parse_styleground(elem) ==
    styleground(elem,
        [k \in DOMAIN StylegroundAttrs |->
            get_optional_attr(StylegroundAttrs[k][2], elem,
                              StylegroundAttrs[k][1])])

\* the attributes of a level read after x, y, width and height, in the order
\* they are read: name is required, the others default
LevelAttrs ==
    << <<"c", "i32">>, <<"cameraOffsetX", "f32">>, <<"cameraOffsetY", "f32">>,
       <<"windPattern", "String">>, <<"space", "bool">>, <<"underwater", "bool">>,
       <<"whisper", "bool">>, <<"dark", "bool">>,
       <<"disableDownTransition", "bool">>,
       <<"music", "String">>, <<"alt_music", "String">>, <<"ambience", "String">>,
       <<"musicLayer1", "bool">>, <<"musicLayer2", "bool">>,
       <<"musicLayer3", "bool">>, <<"musicLayer4", "bool">>,
       <<"musicLayer5", "bool">>, <<"musicLayer6", "bool">>,
       <<"musicProgress", "String">>, <<"ambienceProgress", "String">> >>

\* parse_fgbg_tiles(get_child(elem, name)?, width, height)?
fgbg_tiles_of(child, width, height) ==
    IF ~child.ok THEN child ELSE parse_fgbg_tiles(child.value, width, height)

\* the match on the optional fgtiles child
object_tiles_of(child, width, height) ==
    IF child # None
    THEN parse_object_tiles(child.some, width, height)
    ELSE Ok([k \in 1..i32_div(i32_div(width, 8) * height, 8) |-> -1])

\* get_child(elem, name)?.children().map(parse_entity_trigger).collect()?
entities_of(child) ==
    IF ~child.ok THEN child
    ELSE collect([k \in DOMAIN child.value.children |->
                     parse_entity_trigger(child.value.children[k])])

\* the match on an optional fgdecals or bgdecals child
decals_of(child) ==
    IF child = None THEN Ok(<<>>)
    ELSE collect([k \in DOMAIN child.some.children |->
                     parse_decal(child.some.children[k])])

\* the CelesteMapLevel of parse_level, once every field is read: the first
\* failure in the order of the fields, or the level
level_fields(x, y, width, height, name, attrs, parts) ==
    IF first_err(<<name>> \o attrs \o parts) # None
    THEN first_err(<<name>> \o attrs \o parts)
    ELSE Ok([bounds |-> [origin |-> <<x, y>>, size |-> <<width, height>>],
             name |-> name.value,
             attrs |-> [k \in DOMAIN attrs |-> attrs[k].value],
             fg_tiles |-> parts[1].value,
             bg_tiles |-> parts[2].value,
             object_tiles |-> parts[3].value,
             entities |-> parts[4].value,
             triggers |-> parts[5].value,
             fg_decals |-> parts[6].value,
             bg_decals |-> parts[7].value])

\* parse_level once x, y, width and height are read
level_body(elem, x, y, width, height) ==
    IF first_err(<<x, y, width, height>>) # None
    THEN first_err(<<x, y, width, height>>)
    ELSE level_fields(x.value, y.value, width.value, height.value,
            get_attr("String", elem, "name"),
            [k \in DOMAIN LevelAttrs |->
                get_attr_or_default(LevelAttrs[k][2], elem, LevelAttrs[k][1])],
            << fgbg_tiles_of(get_child(elem, "solids"),
                             i32_div(width.value, 8), i32_div(height.value, 8)),
               fgbg_tiles_of(get_child(elem, "bg"),
                             i32_div(width.value, 8), i32_div(height.value, 8)),
               object_tiles_of(get_optional_child(elem, "fgtiles"),
                               width.value, height.value),
               entities_of(get_child(elem, "entities")),
               entities_of(get_child(elem, "triggers")),
               decals_of(get_optional_child(elem, "fgdecals")),
               decals_of(get_optional_child(elem, "bgdecals")) >>)

\* parse_level(elem)
parse_level(elem) ==
    IF expect_elem(elem, "level") # None THEN expect_elem(elem, "level")
    ELSE level_body(elem,
                    get_attr("i32", elem, "x"),
                    get_attr("i32", elem, "y"),
                    get_attr("i32", elem, "width"),
                    get_attr("i32", elem, "height"))

\* the CelesteMap of from_binfile, once its parts are parsed
celeste_map(package, filler_parsed, style_fg_parsed, style_bg_parsed, levels_parsed) ==
    IF first_err(<<filler_parsed, style_fg_parsed, style_bg_parsed,
                   levels_parsed>>) # None
    THEN first_err(<<filler_parsed, style_fg_parsed, style_bg_parsed,
                     levels_parsed>>)
    ELSE Ok([name |-> package,
             filler |-> filler_parsed.value,
             foregrounds |-> style_fg_parsed.value,
             backgrounds |-> style_bg_parsed.value,
             levels |-> levels_parsed.value])

\* from_binfile once Filler, levels, Foregrounds and Backgrounds are found,
\* leaving out the levels that fail to parse
map_of_children_skipbad(package, filler, levels, style_fg, style_bg) ==
    IF first_err(<<filler, levels, style_fg, style_bg>>) # None
    THEN first_err(<<filler, levels, style_fg, style_bg>>)
    ELSE celeste_map(package,
            collect([k \in DOMAIN filler.value.children |->
                        parse_filler_rect(filler.value.children[k])]),
            collect([k \in DOMAIN style_fg.value.children |->
                        parse_styleground(style_fg.value.children[k])]),
            collect([k \in DOMAIN style_bg.value.children |->
                        parse_styleground(style_bg.value.children[k])]),
            Ok(SelectSeq([k \in DOMAIN levels.value.children |->
                             parse_level(levels.value.children[k])],
                         LAMBDA r : r.ok)))

\* from_binfile once Filler, levels, Foregrounds and Backgrounds are found
map_of_children(package, filler, levels, style_fg, style_bg) ==
    IF first_err(<<filler, levels, style_fg, style_bg>>) # None
    THEN first_err(<<filler, levels, style_fg, style_bg>>)
    ELSE celeste_map(package,
            collect([k \in DOMAIN filler.value.children |->
                        parse_filler_rect(filler.value.children[k])]),
            collect([k \in DOMAIN style_fg.value.children |->
                        parse_styleground(style_fg.value.children[k])]),
            collect([k \in DOMAIN style_bg.value.children |->
                        parse_styleground(style_bg.value.children[k])]),
            collect([k \in DOMAIN levels.value.children |->
                        parse_level(levels.value.children[k])]))

\* get_child(&style, name)?, after `let style = get_child(root, "Style")?`
get_child_of(parent, name) ==
    IF ~parent.ok THEN parent ELSE get_child(parent.value, name)

\* from_binfile(binfile): binfile is [root, package]
from_binfile(binfile) ==
    IF expect_elem(binfile.root, "Map") # None
    THEN expect_elem(binfile.root, "Map")
    ELSE map_of_children(binfile.package,
            get_child(binfile.root, "Filler"),
            get_child(binfile.root, "levels"),
            get_child_of(get_child(binfile.root, "Style"), "Foregrounds"),
            get_child_of(get_child(binfile.root, "Style"), "Backgrounds"))

(***************************************************************************)
(* Calls of the pure functions (apply_tiles, the codec).  No map is        *)
(* loaded: the history variables stay as NoMapLoaded leaves them.  call    *)
(* holds the arguments of one call, ret what the call returned.            *)
(***************************************************************************)
hist_vars_of_map == <<map, undo_buffer, redo_buffer, event_phase, saved, event,
                     ev1, ev2, ev3, pre, run, since_undo, issued, steps>>

hist_vars == <<hist_vars_of_map, ui_vars>>

NoMapLoaded ==
    /\ map = [levels |-> <<>>, dirty |-> FALSE]
    /\ undo_buffer = <<>>
    /\ redo_buffer = <<>>
    /\ event_phase = NullPhase
    /\ saved = <<>>
    /\ event = None
    /\ ev1 = NoEvent /\ ev2 = NoEvent /\ ev3 = NoEvent
    /\ pre = <<>>
    /\ run = NoRun
    /\ since_undo = FALSE
    /\ issued = 0
    /\ steps = 0

(***************************************************************************)
(* apply_tiles on a patch and a target grid.                               *)
(***************************************************************************)
\* widest target grid, in cells
MaxGridWidth == 2
\* longest patch, in cells
MaxPatchLen == 3

\* cell values of a patch: two tiles and TileIgnore
PatchTiles == {"a", "b", TileIgnore}

\* the target grids: two rows of 1..MaxGridWidth cells
TargetGrids ==
    UNION {{TileGrid(tiles, w) : tiles \in [1..(2 * w) -> Tiles]} :
              w \in 1..MaxGridWidth}

\* the patches: 1..MaxPatchLen cells, a row stride of 1 or 2
TilePatches ==
    UNION {{TileGrid(tiles, stride) :
               tiles \in [1..n -> PatchTiles], stride \in {1, 2}} :
              n \in 1..MaxPatchLen}

\* the calls apply_tiles(offset, data, target, ignore): offsets left of,
\* above and inside the grid (a patch reaches past its right and lower edge)
TileCalls ==
    [fn : {"apply_tiles"},
     offset : (-1..(MaxGridWidth - 1)) \X (-1..1),
     data : TilePatches,
     target : TargetGrids,
     ignore : {TileIgnore, "b"}]

TilesInit ==
    /\ NoMapLoaded
    /\ call \in TileCalls
    /\ ret = None
    /\ NoUi

\* the patch is applied to the target
ApplyTiles ==
    /\ ret = None
    /\ ret' = [first |-> apply_tiles(call.offset, call.data, call.target,
                                     call.ignore),
               second |-> None]
    /\ UNCHANGED <<call, hist_vars>>

\* the same patch is applied again, to the grid the first call left
ApplyTilesAgain ==
    /\ ret # None
    /\ ret.second = None
    /\ ret' = [ret EXCEPT !.second = apply_tiles(call.offset, call.data,
                                                 ret.first.target, call.ignore)]
    /\ UNCHANGED <<call, hist_vars>>

TilesNext == ApplyTiles \/ ApplyTilesAgain

TilesSpec == TilesInit /\ [][TilesNext]_vars

\* the 0-based position source cell idx is written to
PatchPos(offset, data, idx) ==
    <<offset[1] + (idx % data.stride), offset[2] + (idx \div data.stride)>>

\* the position <<x, y>> lies inside the grid
InGrid(grid, pt) ==
    /\ 0 <= pt[1] /\ pt[1] < grid.stride
    /\ 0 <= pt[2] /\ pt[1] + pt[2] * grid.stride < Len(grid.tiles)

\* the 0-based source indices that are to be written to the position pt
WrittenTo(pt) ==
    {idx \in 0..(Len(call.data.tiles) - 1) :
        /\ call.data.tiles[idx + 1] # call.ignore
        /\ PatchPos(call.offset, call.data, idx) = pt}

\* C12: after apply_tiles every position inside the target grid that some
\* non-sentinel source cell idx maps to (offset.x + idx mod stride,
\* offset.y + idx div stride) holds that source cell, every other cell of
\* the target keeps its value, and the grid keeps its shape.
C12_ApplyTilesWrites ==
    ret # None =>
        LET before == call.target
            after == ret.first.target
        IN /\ after.stride = before.stride
           /\ Len(after.tiles) = Len(before.tiles)
           /\ \A i \in DOMAIN before.tiles :
                 LET pt == <<(i - 1) % before.stride, (i - 1) \div before.stride>>
                     src == WrittenTo(pt)
                 IN IF src = {}
                    THEN after.tiles[i] = before.tiles[i]
                    ELSE \A idx \in src : after.tiles[i] = call.data.tiles[idx + 1]

\* a patch of two lines (a tile, a sentinel, another tile) changed the cell
\* at its offset and the cell below it
C12_Witness ==
    /\ ret # None
    /\ call.data.stride = 2 /\ Len(call.data.tiles) = 3
    /\ call.data.tiles[2] = call.ignore
    /\ call.data.tiles[1] # call.ignore /\ call.data.tiles[3] # call.ignore
    /\ call.data.tiles[1] # call.data.tiles[3]
    /\ InGrid(call.target, call.offset)
    /\ InGrid(call.target, <<call.offset[1], call.offset[2] + 1>>)
    /\ Cardinality({i \in DOMAIN call.target.tiles :
                       ret.first.target.tiles[i] # call.target.tiles[i]}) = 2

\* C13: apply_tiles returns true exactly when some target cell holds another
\* value after the call than before it.
C13_DirtyIffChanged ==
    ret # None => (ret.first.dirty <=> ret.first.target # call.target)

\* a call that changed a cell and then wrote a cell its own value, and a call
\* that wrote only values the cells already had
C13_Witness ==
    /\ ret # None
    /\ ret.first.dirty
    /\ Len(call.data.tiles) >= 2
    /\ LET last == Len(call.data.tiles)
           pt == PatchPos(call.offset, call.data, last - 1)
       IN /\ call.data.tiles[last] # call.ignore
          /\ InGrid(call.target, pt)
          /\ call.target.tiles[pt[1] + pt[2] * call.target.stride + 1]
                = call.data.tiles[last]

\* C14: applying the same patch a second time returns false and leaves the
\* grid as the first call left it.
C14_PatchIdempotent ==
    (ret # None /\ ret.second # None) =>
        /\ ~ret.second.dirty
        /\ ret.second.target = ret.first.target

\* a patch that changed the grid was applied a second time
C14_Witness ==
    /\ ret # None /\ ret.second # None
    /\ ret.first.dirty
    /\ ret.first.target # call.target

(***************************************************************************)
(* Calls of the codec.                                                     *)
(***************************************************************************)
\* the stored attribute values: integers, floats (-1.5, 1.5, 2.0), bools, texts
AttrValues ==
    {BinElAttr_Int(i) : i \in {-12, 0, 7, 105}}
    \cup {BinElAttr_Float(h) : h \in {-3, 3, 4}}
    \cup {BinElAttr_Bool(b) : b \in BOOLEAN}
    \cup {BinElAttr_Text(t) : t \in {<<>>, <<"a", "b">>, <<"7">>}}

\* get_attr / get_optional_attr on an element that holds the attribute
\* "width" and no attribute "height"
AttrCalls ==
    [fn : {"get_attr", "get_optional_attr"},
     T : AttrTypes,
     elem : {BinEl("level", [n \in {"width"} |-> v], <<>>) : v \in AttrValues},
     name : {"width", "height"}]

\* most levels in one map
MaxLevels == 2

NoAttrs == [n \in {} |-> None]

\* entities, decals and tile grids, well formed and not
GoodEntity ==
    BinEl("spinner", [id |-> BinElAttr_Int(1), x |-> BinElAttr_Int(16),
                      y |-> BinElAttr_Float(3), dust |-> BinElAttr_Bool(TRUE)],
          <<BinEl("node", [x |-> BinElAttr_Int(0), y |-> BinElAttr_Int(8)], <<>>)>>)

\* no id
BadEntity ==
    BinEl("spinner", [x |-> BinElAttr_Int(16), y |-> BinElAttr_Int(0)], <<>>)

GoodDecal ==
    BinEl("decal", [x |-> BinElAttr_Int(0), y |-> BinElAttr_Int(0),
                    scaleX |-> BinElAttr_Int(1), scaleY |-> BinElAttr_Float(-2),
                    texture |-> BinElAttr_Text(<<"a">>)], <<>>)

\* scaleX is a bool
BadDecal ==
    BinEl("decal", [x |-> BinElAttr_Int(0), y |-> BinElAttr_Int(0),
                    scaleX |-> BinElAttr_Bool(TRUE), scaleY |-> BinElAttr_Float(-2),
                    texture |-> BinElAttr_Text(<<"a">>)], <<>>)

TilesEl(name, text) == BinEl(name, [innerText |-> BinElAttr_Text(text)], <<>>)

LevelAttrsOf(w, h) ==
    [x |-> BinElAttr_Int(0), y |-> BinElAttr_Int(-8),
     width |-> BinElAttr_Int(w), height |-> BinElAttr_Int(h),
     name |-> BinElAttr_Text(<<"a">>), dark |-> BinElAttr_Bool(TRUE)]

\* a level element: its attributes, its solids child, its entities, its
\* optional fgtiles and fgdecals children (a list of none or one)
LevelEl(name, attrs, solids, entities, fgtiles, fgdecals) ==
    BinEl(name, attrs,
          <<solids, TilesEl("bg", <<"a", "\n", "\r", "b", "b", "b">>),
            BinEl("entities", NoAttrs, entities),
            BinEl("triggers", NoAttrs, <<>>)>> \o fgtiles \o fgdecals)

GoodSolids == TilesEl("solids", <<"a", "a", "a", "\n", "b">>)

ObjectTiles == TilesEl("fgtiles", <<"1", ",", "2", "\n", "-", "3">>)

\* the well-formed levels: the pixel sizes 8x8, 16x8 and 16x12, with and
\* without the object-tile child
GoodLevels ==
    {LevelEl("level", LevelAttrsOf(size[1], size[2]), GoodSolids, <<GoodEntity>>,
             fgtiles, <<BinEl("fgdecals", NoAttrs, <<GoodDecal>>)>>) :
        size \in {<<8, 8>>, <<16, 8>>, <<16, 12>>},
        fgtiles \in {<<>>, <<ObjectTiles>>}}

\* levels with one flaw each: no name, a bool as the colour c, no solids
\* child, solids at a negative offset, an entity without id, an ill-typed
\* decal, an object tile that is no number, another element name
BadLevels ==
    LET a == LevelAttrsOf(8, 8)
        lv(name, attrs, solids, entities, fgtiles, decals) ==
            LevelEl(name, attrs, solids, entities, fgtiles,
                    <<BinEl("fgdecals", NoAttrs, decals)>>)
    IN {lv("level", [n \in DOMAIN a \ {"name"} |-> a[n]], GoodSolids, <<>>, <<>>, <<>>),
        lv("level", [n \in DOMAIN a \cup {"c"} |->
                        IF n = "c" THEN BinElAttr_Bool(TRUE) ELSE a[n]],
           GoodSolids, <<>>, <<>>, <<>>),
        lv("level", a, TilesEl("solid", <<>>), <<>>, <<>>, <<>>),
        lv("level", a, BinEl("solids", [offsetX |-> BinElAttr_Int(-1)], <<>>),
           <<>>, <<>>, <<>>),
        lv("level", a, GoodSolids, <<GoodEntity, BadEntity>>, <<>>, <<>>),
        lv("level", a, GoodSolids, <<>>, <<>>, <<BadDecal>>),
        lv("level", a, GoodSolids, <<>>, <<TilesEl("fgtiles", <<"1", ",", "x">>)>>, <<>>),
        lv("room", a, GoodSolids, <<>>, <<>>, <<>>)}

\* the lists of at most n elements of S
SeqsUpTo(S, n) == UNION {[1..k -> S] : k \in 0..n}

GoodRect ==
    BinEl("rect", [x |-> BinElAttr_Int(1), y |-> BinElAttr_Int(-1),
                   w |-> BinElAttr_Int(2), h |-> BinElAttr_Float(3)], <<>>)

\* no h
BadRect ==
    BinEl("rect", [x |-> BinElAttr_Int(1), y |-> BinElAttr_Int(-1),
                   w |-> BinElAttr_Int(2)], <<>>)

GoodStyleground ==
    BinEl("parallax", [texture |-> BinElAttr_Text(<<"a">>),
                       scrollx |-> BinElAttr_Int(1)], <<>>)

\* loopx is a number
BadStyleground ==
    BinEl("parallax", [loopx |-> BinElAttr_Int(1)], <<>>)

\* a root element: its name, the names of the children it holds (levels
\* possibly twice), and the content of Filler, Foregrounds and levels
RootEl(name, has, twice, fillers, foregrounds, levels) ==
    LET one(n, el) == IF n \in has THEN <<el>> ELSE <<>>
        style == BinEl("Style", NoAttrs,
                       one("Foregrounds", BinEl("Foregrounds", NoAttrs, foregrounds))
                       \o one("Backgrounds",
                              BinEl("Backgrounds", NoAttrs, <<GoodStyleground>>)))
        lvls == BinEl("levels", NoAttrs, levels)
    IN BinEl(name, NoAttrs,
             one("Filler", BinEl("Filler", NoAttrs, fillers))
             \o one("levels", lvls) \o (IF twice THEN <<lvls>> ELSE <<>>)
             \o one("Style", style))

MapChildren == {"Filler", "levels", "Style", "Foregrounds", "Backgrounds"}

\* the roots: a complete Map with good or bad fillers and stylegrounds, a Map
\* that lacks one child or holds levels twice, a complete root of another name
Roots(levels) ==
    {RootEl("Map", MapChildren, FALSE, fillers, foregrounds, levels) :
        fillers \in {<<>>, <<GoodRect>>, <<GoodRect, BadRect>>},
        foregrounds \in {<<GoodStyleground>>, <<BadStyleground>>}}
    \cup {RootEl("Map", MapChildren \ {c}, FALSE, <<GoodRect>>, <<>>, levels) :
             c \in MapChildren}
    \cup {RootEl("Map", MapChildren, TRUE, <<GoodRect>>, <<>>, levels),
          RootEl("Celeste", MapChildren, FALSE, <<GoodRect>>, <<>>, levels)}

DecodeCalls ==
    [fn : {"from_binfile"},
     binfile : UNION {[root : Roots(levels), package : {<<"m">>}] :
                         levels \in SeqsUpTo(GoodLevels \cup BadLevels, MaxLevels)}]

\* longest innerText of a tile grid decoded on its own, in characters
MaxTextLen == 4

\* a solids / bg / fgtiles element with both offsets and an innerText
GridEl(name, offset, text) ==
    BinEl(name, [offsetX |-> BinElAttr_Int(offset[1]),
                 offsetY |-> BinElAttr_Int(offset[2]),
                 innerText |-> BinElAttr_Text(text)], <<>>)

\* the offsets and the grid sizes (in cells) of the grids decoded on their own
GridOffsets == (-1..1) \X (-1..1)
GridSizes == (1..2) \X (1..2)

\* parse_fgbg_tiles on texts of tiles, line feeds and carriage returns
FgbgCalls ==
    [fn : {"parse_fgbg_tiles"},
     elem : {GridEl("solids", offset, text) :
                offset \in GridOffsets,
                text \in SeqsUpTo({"a", "b", "\n", "\r"}, MaxTextLen)},
     size : GridSizes]

\* parse_object_tiles on texts of digits, commas and line feeds
ObjectCalls ==
    [fn : {"parse_object_tiles"},
     elem : {GridEl("fgtiles", offset, text) :
                offset \in GridOffsets,
                text \in SeqsUpTo({"1", "2", ",", "\n"}, MaxTextLen)},
     size : GridSizes]

CodecInit ==
    /\ NoMapLoaded
    /\ call \in AttrCalls \cup DecodeCalls \cup FgbgCalls \cup ObjectCalls
    /\ ret = None
    /\ NoUi

FromBinfile ==
    /\ call.fn = "from_binfile"
    /\ ret = None
    /\ ret' = from_binfile(call.binfile)
    /\ UNCHANGED <<call, hist_vars>>

GetOptionalAttr ==
    /\ call.fn = "get_optional_attr"
    /\ ret = None
    /\ ret' = get_optional_attr(call.T, call.elem, call.name)
    /\ UNCHANGED <<call, hist_vars>>

GetAttr ==
    /\ call.fn = "get_attr"
    /\ ret = None
    /\ ret' = get_attr(call.T, call.elem, call.name)
    /\ UNCHANGED <<call, hist_vars>>

ParseFgbgTiles ==
    /\ call.fn = "parse_fgbg_tiles"
    /\ ret = None
    /\ ret' = parse_fgbg_tiles(call.elem, call.size[1], call.size[2])
    /\ UNCHANGED <<call, hist_vars>>

ParseObjectTiles ==
    /\ call.fn = "parse_object_tiles"
    /\ ret = None
    /\ ret' = parse_object_tiles(call.elem, call.size[1], call.size[2])
    /\ UNCHANGED <<call, hist_vars>>

CodecNext ==
    \/ FromBinfile \/ GetOptionalAttr \/ GetAttr
    \/ ParseFgbgTiles \/ ParseObjectTiles

CodecSpec == CodecInit /\ [][CodecNext]_vars

\* an attribute extraction returned, and the attribute was present
Extracting ==
    /\ ret # None
    /\ call.fn \in {"get_attr", "get_optional_attr"}
    /\ call.name \in DOMAIN call.elem.attributes

\* the value an extraction returned
Extracted == IF call.fn = "get_attr" THEN ret.value ELSE ret.value.some

\* the (stored kind, requested type) pairs the claim lists
AcceptedPairs ==
    {<<"Int", "i32">>, <<"Float", "i32">>, <<"Float", "f32">>, <<"Int", "f32">>,
     <<"Bool", "bool">>, <<"Text", "String">>, <<"Int", "String">>}

\* C19: extraction of a present attribute succeeds exactly for the listed
\* (stored kind, requested type) pairs, and then returns the stored value,
\* converted: Float as integer is truncated toward zero, Int as float keeps
\* its value, Int as text is its decimal string (parsing it gives the
\* integer back).
C19_CoercionPairs ==
    Extracting =>
        LET attr == call.elem.attributes[call.name]
            pair == <<attr.kind, call.T>>
        IN /\ ret.ok <=> pair \in AcceptedPairs
           /\ ret.ok =>
                CASE pair = <<"Int", "i32">> -> Extracted = attr.v
                  [] pair = <<"Float", "i32">> ->
                        IF attr.v >= 0
                        THEN 2 * Extracted <= attr.v /\ attr.v < 2 * Extracted + 2
                        ELSE 2 * Extracted >= attr.v /\ attr.v > 2 * Extracted - 2
                  [] pair = <<"Float", "f32">> -> Extracted = F32(attr.v)
                  [] pair = <<"Int", "f32">> -> Extracted.halves = attr.v + attr.v
                  [] pair = <<"Bool", "bool">> -> Extracted = attr.v
                  [] pair = <<"Text", "String">> -> Extracted = attr.v
                  [] pair = <<"Int", "String">> -> parse_i32(Extracted) = Some(attr.v)
                  [] OTHER -> FALSE

\* the float -1.5 was extracted as the integer -1
C19_Witness ==
    /\ Extracting
    /\ call.T = "i32"
    /\ call.elem.attributes[call.name] = BinElAttr_Float(-3)
    /\ ret.ok /\ Extracted = -1

\* the word is one of the pieces of the description
Names(description, word) == \E k \in DOMAIN description : description[k] = word

\* C20: extraction of a present attribute whose stored kind cannot be
\* coerced to the requested type fails with BadAttrType, the description
\* naming the attribute and the expected kind; so for get_optional_attr too.
C20_BadAttrTypeNamesAttribute ==
    (Extracting /\ try_coerce(call.T, call.elem.attributes[call.name]) = None) =>
        /\ ~ret.ok
        /\ ret.err.kind = "BadAttrType"
        /\ Names(ret.err.description, NICE_NAME(call.T))
        /\ Names(ret.err.description, call.name)

\* a decode returned
Decoded == ret # None /\ call.fn = "from_binfile"

\* C15: after a successful decode, the foreground, background and object
\* tile grids of every level have exactly (width/8) * (height/8) cells.
C15_TileGridLengths ==
    (Decoded /\ ret.ok) =>
        \A k \in DOMAIN ret.value.levels :
            LET level == ret.value.levels[k]
                cells == i32_div(level.bounds.size[1], 8)
                         * i32_div(level.bounds.size[2], 8)
            IN /\ Len(level.fg_tiles) = cells
               /\ Len(level.bg_tiles) = cells
               /\ Len(level.object_tiles) = cells

\* the (parent, child) pairs from_binfile requires, for the root decoded
RequiredChildren ==
    LET root == call.binfile.root
        style == BinEl_get(root, "Style")
    IN {<<root, c>> : c \in {"Filler", "levels", "Style"}}
       \cup (IF Len(style) = 1
             THEN {<<style[1], c>> : c \in {"Foregrounds", "Backgrounds"}}
             ELSE {})

\* C16: decoding a Map root that lacks a required child (Filler, levels,
\* Style, or Foregrounds or Backgrounds under Style) fails with
\* MissingChild, the description naming a parent element and the child
\* expected of it that is not there (once).
C16_MissingChild ==
    (/\ Decoded
     /\ call.binfile.root.name = "Map"
     /\ \E pc \in RequiredChildren : BinEl_get(pc[1], pc[2]) = <<>>)
    => /\ ~ret.ok
       /\ ret.err.kind = "MissingChild"
       /\ \E pc \in RequiredChildren :
             /\ Len(BinEl_get(pc[1], pc[2])) # 1
             /\ Names(ret.err.description, pc[1].name)
             /\ Names(ret.err.description, pc[2])

\* a Map without levels child was decoded
C16_Witness ==
    /\ Decoded
    /\ call.binfile.root.name = "Map"
    /\ BinEl_get(call.binfile.root, "levels") = <<>>
    /\ BinEl_get(call.binfile.root, "Filler") # <<>>
    /\ ~ret.ok /\ Names(ret.err.description, "levels")

\* C17 as stated: decoding a root that is not named Map fails with kind
\* MissingChild.
C17_WrongRootMissingChild ==
    (Decoded /\ call.binfile.root.name # "Map")
    => (~ret.ok /\ ret.err.kind = "MissingChild")

\* C17 as amended: decoding a root that is not named Map fails with kind
\* ParseError, the description naming the expected element Map and the name
\* found.
C17_WrongRootParseError ==
    (Decoded /\ call.binfile.root.name # "Map")
    => /\ ~ret.ok
       /\ ret.err.kind = "ParseError"
       /\ Names(ret.err.description, "Map")
       /\ Names(ret.err.description, call.binfile.root.name)

\* a root of another name that holds every required child and two levels
\* was decoded
C17_Witness ==
    /\ Decoded
    /\ call.binfile.root.name # "Map"
    /\ \A pc \in RequiredChildren : Len(BinEl_get(pc[1], pc[2])) = 1
    /\ Len(BinEl_get(call.binfile.root, "levels")[1].children) = 2

\* the children of the only child of that name
ChildrenOf(elem, name) == BinEl_get(elem, name)[1].children

\* the root decoded has the required shape: it is a Map with each required
\* child once
WellShaped ==
    /\ call.binfile.root.name = "Map"
    /\ \A pc \in RequiredChildren : Len(BinEl_get(pc[1], pc[2])) = 1
    /\ Cardinality(RequiredChildren) = 5

\* the elements of a list
Elems(list) == {list[k] : k \in DOMAIN list}

\* the errors parse returns on the elements of S
Failures(parse(_), S) == {parse(c) : c \in {d \in S : ~parse(d).ok}}

\* the errors of the parts of a level: its entities, triggers and decals,
\* and its tile grids (decoded when the level has a width and a height)
LevelFailures(lv) ==
    LET list(name, parse(_)) ==
            IF Len(BinEl_get(lv, name)) = 1
            THEN Failures(parse, Elems(ChildrenOf(lv, name)))
            ELSE {}
        width == get_attr("i32", lv, "width")
        height == get_attr("i32", lv, "height")
        fgbg(el) == parse_fgbg_tiles(el, i32_div(width.value, 8),
                                     i32_div(height.value, 8))
        object(el) == parse_object_tiles(el, width.value, height.value)
        grid(name, parse(_)) ==
            IF Len(BinEl_get(lv, name)) = 1 /\ width.ok /\ height.ok
            THEN Failures(parse, {BinEl_get(lv, name)[1]})
            ELSE {}
    IN list("entities", parse_entity_trigger)
       \cup list("triggers", parse_entity_trigger)
       \cup list("fgdecals", parse_decal) \cup list("bgdecals", parse_decal)
       \cup grid("solids", fgbg) \cup grid("bg", fgbg) \cup grid("fgtiles", object)

\* the errors of all parts of the root decoded
PartFailures ==
    LET root == call.binfile.root
        style == BinEl_get(root, "Style")[1]
        levels == Elems(ChildrenOf(root, "levels"))
    IN Failures(parse_filler_rect, Elems(ChildrenOf(root, "Filler")))
       \cup Failures(parse_styleground, Elems(ChildrenOf(style, "Foregrounds")))
       \cup Failures(parse_styleground, Elems(ChildrenOf(style, "Backgrounds")))
       \cup Failures(parse_level, levels)
       \cup UNION {LevelFailures(c) : c \in levels}

\* C18: a decode of a well-shaped root returns a map exactly when every
\* filler rectangle, styleground and level (with its tile grids, entities,
\* triggers and decals) parsed; otherwise it returns the error of a part that
\* failed and no map.  A returned map holds every part.
C18_ErrorsAbortDecode ==
    (Decoded /\ WellShaped) =>
        LET root == call.binfile.root
        IN /\ ret.ok <=> PartFailures = {}
           /\ ~ret.ok => (ret \in PartFailures /\ DOMAIN ret = {"ok", "err"})
           /\ ret.ok =>
                /\ Len(ret.value.levels) = Len(ChildrenOf(root, "levels"))
                /\ Len(ret.value.filler) = Len(ChildrenOf(root, "Filler"))
                /\ Len(ret.value.foregrounds)
                     = Len(ChildrenOf(BinEl_get(root, "Style")[1], "Foregrounds"))

\* a map whose first level is fine and whose second level holds an entity
\* that does not parse was decoded
C18_Witness ==
    /\ Decoded /\ WellShaped
    /\ ~ret.ok
    /\ LET lvls == ChildrenOf(call.binfile.root, "levels")
       IN /\ Len(lvls) = 2
          /\ parse_level(lvls[1]).ok
          /\ BadEntity \in Elems(ChildrenOf(lvls[2], "entities"))

\* the default the claim lists for a requested type
ListedDefault(T) ==
    CASE T = "i32" -> 0
      [] T = "f32" -> F32(0)
      [] T = "bool" -> FALSE
      [] T = "String" -> <<>>

\* the first level of the root decoded lacks the required attribute name,
\* and nothing that is parsed before it fails
FirstLevelUnnamed ==
    /\ Decoded /\ WellShaped
    /\ LET root == call.binfile.root
           style == BinEl_get(root, "Style")[1]
           lvls == ChildrenOf(root, "levels")
       IN /\ Failures(parse_filler_rect, Elems(ChildrenOf(root, "Filler"))) = {}
          /\ Failures(parse_styleground, Elems(ChildrenOf(style, "Foregrounds"))) = {}
          /\ Failures(parse_styleground, Elems(ChildrenOf(style, "Backgrounds"))) = {}
          /\ lvls # <<>>
          /\ lvls[1].name = "level"
          /\ {"x", "y", "width", "height"} \subseteq DOMAIN lvls[1].attributes
          /\ "name" \notin DOMAIN lvls[1].attributes

\* C21: get_attr of an absent attribute fails with MissingAttribute, the
\* description naming the element and the attribute, and so does the decode
\* of a level without name; get_optional_attr of an absent attribute returns
\* None without error, and in a decoded map every optional attribute that was
\* absent holds its default: 0, 0.0, false or the empty text in a level, None
\* in a styleground.
C21_MissingAndDefault ==
    /\ (ret # None /\ call.fn = "get_attr"
          /\ call.name \notin DOMAIN call.elem.attributes)
       => /\ ~ret.ok
          /\ ret.err.kind = "MissingAttribute"
          /\ Names(ret.err.description, call.elem.name)
          /\ Names(ret.err.description, call.name)
    /\ (ret # None /\ call.fn = "get_optional_attr"
          /\ call.name \notin DOMAIN call.elem.attributes)
       => ret = Ok(None)
    /\ FirstLevelUnnamed
       => /\ ~ret.ok
          /\ ret.err.kind = "MissingAttribute"
          /\ Names(ret.err.description, "level")
          /\ Names(ret.err.description, "name")
    /\ (Decoded /\ ret.ok) =>
          LET root == call.binfile.root
              lvls == ChildrenOf(root, "levels")
              fgs == ChildrenOf(BinEl_get(root, "Style")[1], "Foregrounds")
          IN /\ \A k \in DOMAIN lvls : \A j \in DOMAIN LevelAttrs :
                   LevelAttrs[j][1] \notin DOMAIN lvls[k].attributes
                   => ret.value.levels[k].attrs[j] = ListedDefault(LevelAttrs[j][2])
             /\ \A k \in DOMAIN fgs : \A j \in DOMAIN StylegroundAttrs :
                   StylegroundAttrs[j][1] \notin DOMAIN fgs[k].attributes
                   => ret.value.foregrounds[k].attrs[j] = None

\* a map whose filler and stylegrounds leave optional attributes out and
\* whose first level has no name was decoded
C21_Witness ==
    /\ FirstLevelUnnamed
    /\ ChildrenOf(call.binfile.root, "Filler") # <<>>
    /\ ~ret.ok /\ ret.err.kind = "MissingAttribute"

(***************************************************************************)
(* Tile grids decoded on their own.  The claims describe the grid by the   *)
(* place of each character or number in the text, not by the loop.         *)
(***************************************************************************)
\* the text and the offsets of the grid element decoded
GridText == call.elem.attributes["innerText"].v
GridOffset ==
    <<call.elem.attributes["offsetX"].v, call.elem.attributes["offsetY"].v>>

\* the number of line feeds before the i-th character: its row
RowOf(text, i) == Cardinality({j \in 1..(i - 1) : text[j] = "\n"})

\* the index of the last line feed before the i-th character, or 0
LineStartOf(text, i) ==
    LET feeds == {j \in 1..(i - 1) : text[j] = "\n"}
    IN IF feeds = {} THEN 0 ELSE CHOOSE j \in feeds : \A k \in feeds : k <= j

\* the tile characters of a text, and the column of one: the tile characters
\* before it on its line
TileChars(text) == {i \in DOMAIN text : text[i] \notin {"\n", "\r"}}

TileColumnOf(text, i) ==
    Cardinality({j \in (LineStartOf(text, i) + 1)..(i - 1) : text[j] # "\r"})

\* the position the i-th character is aimed at
TileTarget(i) ==
    <<GridOffset[1] + TileColumnOf(GridText, i),
      GridOffset[2] + RowOf(GridText, i)>>

\* pt lies in [0, width) x [0, height) of the grid decoded
InsideGrid(pt) ==
    /\ 0 <= pt[1] /\ pt[1] < call.size[1]
    /\ 0 <= pt[2] /\ pt[2] < call.size[2]

\* the position of the c-th cell (1-based, row-major) of the grid decoded
CellPos(c) == <<(c - 1) % call.size[1], (c - 1) \div call.size[1]>>

\* the decode succeeded with every character inside the grid at its
\* position, the characters outside dropped, and '0' in the other cells
FgbgDecodedByPosition ==
    /\ ret.ok
    /\ Len(ret.value) = call.size[1] * call.size[2]
    /\ \A c \in DOMAIN ret.value :
          LET src == {i \in TileChars(GridText) : TileTarget(i) = CellPos(c)}
          IN IF src = {} THEN ret.value[c] = "0"
             ELSE \A i \in src : ret.value[c] = GridText[i]

FgbgParsed == ret # None /\ call.fn = "parse_fgbg_tiles"

\* C22 as stated: for every innerText and every offset pair the decode of a
\* solids/bg grid succeeds, characters aimed outside the grid are dropped,
\* characters aimed inside are stored at their position, the other cells
\* hold '0'.
C22_FgbgDropsOutside ==
    FgbgParsed => FgbgDecodedByPosition

\* C22 as amended: so for every innerText and every offset pair without a
\* negative offset; with a negative offsetX or offsetY the decode fails with
\* OutOfRange naming the element.
C22_FgbgDropsOutsideFromZero ==
    FgbgParsed =>
        IF GridOffset[1] >= 0 /\ GridOffset[2] >= 0
        THEN FgbgDecodedByPosition
        ELSE /\ ~ret.ok
             /\ ret.err.kind = "OutOfRange"
             /\ Names(ret.err.description, call.elem.name)

\* a grid was decoded from a text with a character aimed inside it and,
\* after a line feed, a character aimed outside
C22_Witness ==
    /\ FgbgParsed
    /\ ret.ok
    /\ GridOffset[2] = 1
    /\ \E i, j \in TileChars(GridText) :
          /\ i < j
          /\ RowOf(GridText, j) = 1
          /\ InsideGrid(TileTarget(i))
          /\ ~InsideGrid(TileTarget(j))
          /\ ret.value[TileTarget(i)[1] + TileTarget(i)[2] * call.size[1] + 1]
                = GridText[i]

\* the numbers of an object-tile text: a number starts at a character that
\* is no separator and follows a separator or begins the text
Separators == {",", "\n"}

NumberStarts(text) ==
    {i \in DOMAIN text :
        /\ text[i] \notin Separators
        /\ i = 1 \/ text[i - 1] \in Separators}

\* the index of the last character of the number that starts at i
NumberEnd(text, i) ==
    CHOOSE e \in i..Len(text) :
        /\ \A k \in i..e : text[k] \notin Separators
        /\ e = Len(text) \/ text[e + 1] \in Separators

\* the integer written in the characters i..e
RECURSIVE NumberValue(_, _, _)
NumberValue(text, i, e) ==
    IF e < i THEN 0 ELSE 10 * NumberValue(text, i, e - 1) + DigitOf(text[e])

\* the index of the number that starts at i among the numbers of its line
NumberIndexOf(text, i) ==
    Cardinality({j \in NumberStarts(text) : LineStartOf(text, i) < j /\ j < i})

\* the position the number that starts at i is aimed at
NumberTarget(i) ==
    <<GridOffset[1] + NumberIndexOf(GridText, i),
      GridOffset[2] + RowOf(GridText, i)>>

\* a number aimed outside the grid made the decode fail with OutOfRange;
\* without one the decode succeeded with every number at its position and -1
\* in the other cells
ObjectDecodedByPosition ==
    IF \A i \in NumberStarts(GridText) : InsideGrid(NumberTarget(i))
    THEN /\ ret.ok
         /\ Len(ret.value) = call.size[1] * call.size[2]
         /\ \A c \in DOMAIN ret.value :
               LET src == {i \in NumberStarts(GridText) : NumberTarget(i) = CellPos(c)}
               IN IF src = {} THEN ret.value[c] = -1
                  ELSE \A i \in src :
                          ret.value[c] = NumberValue(GridText, i, NumberEnd(GridText, i))
    ELSE /\ ~ret.ok
         /\ ret.err.kind = "OutOfRange"

ObjectParsed == ret # None /\ call.fn = "parse_object_tiles"

\* C23 as stated: the decode of an object-tile grid fails with OutOfRange
\* when a number is aimed (offsetX + its index among the numbers of its
\* line, offsetY + its line) outside the grid; otherwise every number is
\* stored at its position and the other cells hold -1.
C23_ObjectOutOfRange ==
    ObjectParsed => ObjectDecodedByPosition

\* C23 as amended: so when neither offset is negative; with a negative
\* offsetX or offsetY the decode fails with OutOfRange whatever the text.
C23_ObjectOutOfRangeFromZero ==
    ObjectParsed =>
        IF GridOffset[1] >= 0 /\ GridOffset[2] >= 0
        THEN ObjectDecodedByPosition
        ELSE /\ ~ret.ok
             /\ ret.err.kind = "OutOfRange"

\* a grid was decoded from a text whose first number is aimed inside the
\* grid and whose second number, after an empty token, is aimed outside
C23_Witness ==
    /\ ObjectParsed
    /\ GridOffset[1] >= 0 /\ GridOffset[2] >= 0
    /\ ~ret.ok /\ ret.err.kind = "OutOfRange"
    /\ \E i, j \in NumberStarts(GridText) :
          /\ i < j
          /\ GridText[j - 1] = "," /\ GridText[j - 2] = ","
          /\ InsideGrid(NumberTarget(i))
          /\ ~InsideGrid(NumberTarget(j))

(***************************************************************************)
(* Entity edits: the history manager driven by adds and removes of         *)
(* entities and triggers only.                                             *)
(***************************************************************************)
\* the entity edits a tool may submit: an add under a generated id and a
\* remove by id, for the entities list and the triggers list
EntityPayloads ==
    {EntityAdd(0, Entity(0, 1), trigger, TRUE) : trigger \in BOOLEAN}
    \cup {EntityRemove(0, id, trigger) : id \in EntityIds, trigger \in BOOLEAN}

\* the documents of the entity edits: one room, empty or with entities and
\* triggers whose ids are unique within their list; next_id is above them
EntityLevels ==
    {Level(<<>>, <<>>, [i \in 1..RoomWidth |-> "0"], 1),
     Level(<<Entity(1, 1), Entity(2, 1)>>, <<Entity(1, 2)>>,
           [i \in 1..RoomWidth |-> "0"], 3)}

EntityInit ==
    /\ \E level \in EntityLevels : map = [levels |-> <<level>>, dirty |-> FALSE]
    /\ undo_buffer = <<>>
    /\ redo_buffer = <<>>
    /\ event_phase = NullPhase
    /\ saved = Doc(map)
    /\ event = None
    /\ ev1 = NoEvent /\ ev2 = NoEvent /\ ev3 = NoEvent
    /\ pre = map.levels
    /\ run = NoRun
    /\ since_undo = FALSE
    /\ issued = 0
    /\ steps = 0
    /\ call = None
    /\ ret = None
    /\ NoUi

\* a tool emits an entity edit, which is delivered to the handler
EmitEntityAction ==
    /\ steps < MaxSteps
    /\ \E phase \in Phases(issued), action \in EntityPayloads :
           /\ Dispatch(MapID_action(phase, action), "Action")
           /\ issued' = IF phase > issued THEN phase ELSE issued

EntityNext == EmitEntityAction \/ Undo \/ Redo

EntitySpec == EntityInit /\ [][EntityNext]_vars

\* no two entities of the list share an id
UniqueIds(list) ==
    \A i, j \in DOMAIN list : list[i].id = list[j].id => i = j

\* C24: after any sequence of entity adds, removes, undos and redos, no two
\* entities of a level's entities list share an id, and no two of its
\* triggers list.
C24_EntityIdsUnique ==
    \A k \in DOMAIN map.levels :
        /\ UniqueIds(map.levels[k].entities)
        /\ UniqueIds(map.levels[k].triggers)

\* an Undo put a removed entity back under its original id, next to an
\* entity that was added since under a generated id
C24_Witness ==
    /\ ev1.kind = "Undo" /\ ev1.ok
    /\ ev1.inv.type = "EntityRemove"
    /\ Applied(ev2) /\ ev2.inv.type = "EntityRemove" /\ ~ev2.inv.trigger
    /\ ~ev1.inv.trigger
    /\ ev1.inv.id < ev2.inv.id
    /\ Matching(map.levels[1].entities, ev1.inv.id) # {}
    /\ Matching(map.levels[1].entities, ev2.inv.id) # {}

(***************************************************************************)
(* The room events of AppState::apply (src/app_state.rs).  loaded_maps     *)
(* maps a MapID to its CelesteMap [levels, dirty]; a room is a record of   *)
(* its entity, trigger and decal lists, its tile grids, its id counter and *)
(* the render_cache_valid flag of its cache.                               *)
(***************************************************************************)
Room(entities, triggers, fg_decals, bg_decals, valid) ==
    [entities |-> entities, triggers |-> triggers,
     fg_decals |-> fg_decals, bg_decals |-> bg_decals,
     fg_tiles |-> [i \in 1..RoomWidth |-> "0"],
     bg_tiles |-> [i \in 1..RoomWidth |-> "0"],
     object_tiles |-> [i \in 1..RoomWidth |-> -1],
     next_id |-> 3,
     render_cache_valid |-> valid]

Decal(id, val) == [id |-> id, val |-> val]

AppEvent_TileUpdate(m, room, fg, offset, data) ==
    [type |-> "TileUpdate", map |-> m, room |-> room, fg |-> fg,
     offset |-> offset, data |-> data]

AppEvent_ObjectTileUpdate(m, room, offset, data) ==
    [type |-> "ObjectTileUpdate", map |-> m, room |-> room,
     offset |-> offset, data |-> data]

AppEvent_EntityAdd(m, room, entity, trigger) ==
    [type |-> "EntityAdd", map |-> m, room |-> room, entity |-> entity,
     trigger |-> trigger]

AppEvent_EntityUpdate(m, room, entity, trigger) ==
    [type |-> "EntityUpdate", map |-> m, room |-> room, entity |-> entity,
     trigger |-> trigger]

AppEvent_EntityRemove(m, room, id, trigger) ==
    [type |-> "EntityRemove", map |-> m, room |-> room, id |-> id,
     trigger |-> trigger]

AppEvent_DecalAdd(m, room, fg, d) ==
    [type |-> "DecalAdd", map |-> m, room |-> room, fg |-> fg, decal |-> d]

AppEvent_DecalUpdate(m, room, fg, d) ==
    [type |-> "DecalUpdate", map |-> m, room |-> room, fg |-> fg, decal |-> d]

AppEvent_DecalRemove(m, room, fg, id) ==
    [type |-> "DecalRemove", map |-> m, room |-> room, fg |-> fg, id |-> id]

\* room.cache.borrow_mut().render_cache_valid = false; map.dirty = true,
\* with the room as the edit left it
invalidate(loaded_maps, e, room) ==
    [loaded_maps EXCEPT ![e.map] =
        [levels |-> [@.levels EXCEPT ![e.room + 1] =
                        [room EXCEPT !.render_cache_valid = FALSE]],
         dirty |-> TRUE]]

\* a tile edit that invalidates the cache whatever apply_tiles reports
apply_tile_event_always(loaded_maps, e, room, field, ignore) ==
    invalidate(loaded_maps, e,
        [room EXCEPT ![field] =
            apply_tiles(e.offset, e.data, TileGrid(room[field], RoomWidth),
                        ignore).target.tiles])

\* a tile edit: the room with the patched grid when apply_tiles reports
\* dirty, the room untouched otherwise
apply_tile_event(loaded_maps, e, room, field, ignore) ==
    LET r == apply_tiles(e.offset, e.data, TileGrid(room[field], RoomWidth), ignore)
    IN IF r.dirty
       THEN invalidate(loaded_maps, e, [room EXCEPT ![field] = r.target.tiles])
       ELSE loaded_maps

\* an entity remove that invalidates the cache whether or not it found one
apply_EntityRemove_event_always(loaded_maps, e, room) ==
    LET field == IF e.trigger THEN "triggers" ELSE "entities"
    IN invalidate(loaded_maps, e, [room EXCEPT ![field] = WithoutId(room[field], e.id)])

\* AppEvent::EntityRemove: the removal loop, then `if any`
apply_EntityRemove_event(loaded_maps, e, room) ==
    LET field == IF e.trigger THEN "triggers" ELSE "entities"
    IN IF Matching(room[field], e.id) # {}
       THEN invalidate(loaded_maps, e,
                       [room EXCEPT ![field] = WithoutId(room[field], e.id)])
       ELSE loaded_maps

\* AppEvent::EntityUpdate: room.entity_mut(entity.id, trigger)
apply_EntityUpdate_event(loaded_maps, e, room) ==
    LET field == IF e.trigger THEN "triggers" ELSE "entities"
        found == Matching(room[field], e.entity.id)
    IN IF found # {}
       THEN invalidate(loaded_maps, e,
                       [room EXCEPT ![field][Min(found)] = e.entity])
       ELSE loaded_maps

\* an entity add that pushes onto room.entities whatever the flag says
apply_EntityAdd_event_entities(loaded_maps, e, room) ==
    invalidate(loaded_maps, e,
        [room EXCEPT !.entities = Append(@, [e.entity EXCEPT !.id = room.next_id]),
                     !.next_id = @ + 1])

\* AppEvent::EntityAdd: entity.id = room.next_id(), pushed at the end
apply_EntityAdd_event(loaded_maps, e, room) ==
    LET field == IF e.trigger THEN "triggers" ELSE "entities"
    IN invalidate(loaded_maps, e,
           [room EXCEPT ![field] = Append(@, [e.entity EXCEPT !.id = room.next_id]),
                        !.next_id = @ + 1])

\* AppEvent::DecalRemove
apply_DecalRemove_event(loaded_maps, e, room) ==
    LET field == IF e.fg THEN "fg_decals" ELSE "bg_decals"
    IN IF Matching(room[field], e.id) # {}
       THEN invalidate(loaded_maps, e,
                       [room EXCEPT ![field] = WithoutId(room[field], e.id)])
       ELSE loaded_maps

\* AppEvent::DecalUpdate: room.decal_mut(decal.id, fg)
apply_DecalUpdate_event(loaded_maps, e, room) ==
    LET field == IF e.fg THEN "fg_decals" ELSE "bg_decals"
        found == Matching(room[field], e.decal.id)
    IN IF found # {}
       THEN invalidate(loaded_maps, e,
                       [room EXCEPT ![field][Min(found)] = e.decal])
       ELSE loaded_maps

\* AppEvent::DecalAdd: decal.id = assets::next_uuid(), pushed at the end
apply_DecalAdd_event(loaded_maps, e, room, uuid) ==
    LET field == IF e.fg THEN "fg_decals" ELSE "bg_decals"
    IN invalidate(loaded_maps, e,
           [room EXCEPT ![field] = Append(@, [e.decal EXCEPT !.id = uuid])])

\* the arm of a room event, on the room it addresses
apply_room_event(loaded_maps, e, room, uuid) ==
    CASE e.type = "TileUpdate" ->
            apply_tile_event(loaded_maps, e, room,
                             IF e.fg THEN "fg_tiles" ELSE "bg_tiles", TileIgnore)
      [] e.type = "ObjectTileUpdate" ->
            apply_tile_event(loaded_maps, e, room, "object_tiles", -2)
      [] e.type = "EntityAdd" -> apply_EntityAdd_event(loaded_maps, e, room)
      [] e.type = "EntityUpdate" -> apply_EntityUpdate_event(loaded_maps, e, room)
      [] e.type = "EntityRemove" -> apply_EntityRemove_event(loaded_maps, e, room)
      [] e.type = "DecalAdd" -> apply_DecalAdd_event(loaded_maps, e, room, uuid)
      [] e.type = "DecalUpdate" -> apply_DecalUpdate_event(loaded_maps, e, room)
      [] e.type = "DecalRemove" -> apply_DecalRemove_event(loaded_maps, e, room)

\* AppState::apply on a room event: loaded_maps.get_mut(map) and
\* map.levels.get_mut(room), then the arm; loaded_maps afterwards
AppState_apply(loaded_maps, e, uuid) ==
    IF e.map \in DOMAIN loaded_maps
       /\ e.room + 1 \in DOMAIN loaded_maps[e.map].levels
    THEN apply_room_event(loaded_maps, e, loaded_maps[e.map].levels[e.room + 1], uuid)
    ELSE loaded_maps

\* the maps a room event may name: "m" is loaded, "x" is not
MapIDs == {"m", "x"}

\* the rooms that may follow the first room of the map: none, or one more
OtherRooms ==
    {<<>>, <<Room(<<Entity(1, 1)>>, <<Entity(2, 1)>>, <<Decal(1, 1)>>,
              <<Decal(2, 1)>>, TRUE)>>}

\* loaded_maps with the one map "m" of one or two rooms
LoadedMaps ==
    {[m \in {"m"} |->
         [levels |-> <<Room(entities, triggers, fg_decals, <<Decal(2, 1)>>, valid)>>
                     \o others,
          dirty |-> dirty]] :
        entities \in {<<>>, <<Entity(1, 1)>>},
        triggers \in {<<>>, <<Entity(2, 1)>>},
        fg_decals \in {<<>>, <<Decal(1, 1)>>},
        valid \in BOOLEAN, dirty \in BOOLEAN, others \in OtherRooms}

\* the room events a tool may emit
RoomEvents ==
    {AppEvent_TileUpdate(m, room, fg, <<0, 0>>, TileGrid(<<t>>, 1)) :
        m \in MapIDs, room \in Rooms, fg \in BOOLEAN, t \in {"0", "a", TileIgnore}}
    \cup {AppEvent_ObjectTileUpdate(m, room, <<0, 0>>, TileGrid(<<t>>, 1)) :
        m \in MapIDs, room \in Rooms, t \in {-2, -1, 5}}
    \cup {AppEvent_EntityAdd(m, room, Entity(0, 2), trigger) :
        m \in MapIDs, room \in Rooms, trigger \in BOOLEAN}
    \cup {AppEvent_EntityUpdate(m, room, Entity(id, 2), trigger) :
        m \in MapIDs, room \in Rooms, id \in EntityIds, trigger \in BOOLEAN}
    \cup {AppEvent_EntityRemove(m, room, id, trigger) :
        m \in MapIDs, room \in Rooms, id \in EntityIds, trigger \in BOOLEAN}
    \cup {AppEvent_DecalAdd(m, room, fg, Decal(0, 2)) :
        m \in MapIDs, room \in Rooms, fg \in BOOLEAN}
    \cup {AppEvent_DecalUpdate(m, room, fg, Decal(id, 2)) :
        m \in MapIDs, room \in Rooms, id \in EntityIds, fg \in BOOLEAN}
    \cup {AppEvent_DecalRemove(m, room, fg, id) :
        m \in MapIDs, room \in Rooms, id \in EntityIds, fg \in BOOLEAN}

\* the value assets::next_uuid() returns next
NextUuid == 7

AppCalls ==
    [fn : {"apply"}, loaded_maps : LoadedMaps, event : RoomEvents]

AppEventInit ==
    /\ NoMapLoaded
    /\ call \in AppCalls
    /\ ret = None
    /\ NoUi

\* the event is applied
ApplyAppEvent ==
    /\ ret = None
    /\ ret' = [loaded_maps |-> AppState_apply(call.loaded_maps, call.event, NextUuid)]
    /\ UNCHANGED <<call, hist_vars>>

AppEventNext == ApplyAppEvent

AppEventSpec == AppEventInit /\ [][AppEventNext]_vars

\* the list an entity or decal event addresses, in the room it addresses
AddressedList ==
    LET e == call.event
        room == call.loaded_maps[e.map].levels[e.room + 1]
    IN CASE e.type \in {"EntityUpdate", "EntityRemove"} ->
                IF e.trigger THEN room.triggers ELSE room.entities
         [] e.type \in {"DecalUpdate", "DecalRemove"} ->
                IF e.fg THEN room.fg_decals ELSE room.bg_decals

\* the id an update or remove looks for
AddressedId ==
    IF call.event.type = "EntityUpdate" THEN call.event.entity.id
    ELSE IF call.event.type = "DecalUpdate" THEN call.event.decal.id
    ELSE call.event.id

\* the map and the room the event names exist
RoomExists ==
    /\ call.event.map \in DOMAIN call.loaded_maps
    /\ call.event.room + 1 \in DOMAIN call.loaded_maps[call.event.map].levels

\* the event is an update or remove whose id matches nothing in its list
NoSuchId ==
    /\ RoomExists
    /\ call.event.type \in {"EntityUpdate", "EntityRemove",
                            "DecalUpdate", "DecalRemove"}
    /\ \A i \in DOMAIN AddressedList : AddressedList[i].id # AddressedId

\* C25: an entity or decal update or remove whose id matches nothing in the
\* addressed list, and every room event whose map or room does not exist,
\* leaves the document as it was: every list, every tile grid, the dirty
\* flag and every render_cache_valid flag.
C25_NoTargetNoChange ==
    (ret # None /\ (NoSuchId \/ ~RoomExists)) =>
        ret.loaded_maps = call.loaded_maps

\* an entity with a stale id was removed from a list that holds another
\* entity, in a clean map whose render cache was valid
C25_Witness ==
    /\ ret # None
    /\ NoSuchId
    /\ call.event.type = "EntityRemove"
    /\ AddressedList # <<>>
    /\ ~call.loaded_maps["m"].dirty
    /\ call.loaded_maps["m"].levels[1].render_cache_valid

(***************************************************************************)
(* Further properties of the history manager.                              *)
(***************************************************************************)
\* the action handled last was applied with the phase that was current, on
\* an undo buffer that held an entry: a merged action
Merged ==
    /\ Applied(ev1)
    /\ ev1.before.undo_buffer # <<>>
    /\ ~EventPhase_ne(ev1.before.event_phase, ev1.phase)

\* C26: after a merged action the undo buffer holds exactly the entries it
\* held before the action, in the same order, also when it was at capacity.
C26_MergeKeepsBuffer ==
    Merged => undo_buffer = ev1.before.undo_buffer

(***************************************************************************)
(* Batched actions: tools submit several room actions as one action.  The  *)
(* action submitted last is kept in call.                                  *)
(***************************************************************************)
\* the batches the tools submit: an add followed by the removal of entity
\* 2, a tile update followed by an update of entity 1, and entity 1 removed
\* twice; and one plain action, the removal of entity 1
BatchPayloads ==
    {Batched(<<EntityAdd(0, Entity(0, 1), FALSE, TRUE),
               EntityRemove(0, 2, FALSE)>>),
     Batched(<<TileUpdate(0, <<0, 0>>, TileGrid(<<"a">>, 1)),
               EntityUpdate(0, Entity(1, 2), FALSE)>>),
     Batched(<<EntityRemove(0, 1, FALSE), EntityRemove(0, 1, FALSE)>>),
     EntityRemove(0, 1, FALSE)}

\* batch_action(events, merge_phase): the batch is delivered to the handler
EmitBatchAction ==
    /\ steps < MaxSteps
    /\ \E phase \in Phases(issued), action \in BatchPayloads :
           /\ Deliver(MapID_action(phase, action), "Action")
           /\ issued' = IF phase > issued THEN phase ELSE issued
           /\ call' = action

BatchNext == EmitBatchAction \/ Undo \/ Redo

BatchSpec == Init /\ [][BatchNext]_vars

\* the rooms after the first n sub-operations of a batch were applied to
\* the rooms given, each one succeeding
RECURSIVE AfterPrefix(_, _, _)
AfterPrefix(levels, events, n) ==
    IF n = 0 THEN levels
    ELSE apply_room_action_at(
             [levels |-> AfterPrefix(levels, events, n - 1), dirty |-> FALSE],
             events[n]).map.levels

\* sub-operation k of the batch fails once the sub-operations before it
\* were applied
FailsAt(levels, events, k) ==
    ~apply_room_action_at(
         [levels |-> AfterPrefix(levels, events, k - 1), dirty |-> FALSE],
         events[k]).ok

\* the first sub-operation of the batch to fail on the rooms given (0 if
\* every one of them succeeds)
FirstFailure(levels, events) ==
    IF \E k \in DOMAIN events : FailsAt(levels, events, k)
    THEN Min({k \in DOMAIN events : FailsAt(levels, events, k)})
    ELSE 0

\* the event handled last was a batched action
BatchHandled ==
    /\ ev1.kind = "Action"
    /\ call # None
    /\ call.type = "Batched"

\* C27: when sub-operation k of a batched action fails, the sub-operations
\* before it stay applied to the document, and the handler records no undo
\* entry, keeps the redo buffer and the phase, and does not set dirty: no
\* entry of the history reverts what the batch did.
C27_FailedBatchKeepsPrefix ==
    (BatchHandled /\ FirstFailure(pre, call.events) > 0) =>
        /\ ~ev1.ok
        /\ map.levels = AfterPrefix(pre, call.events,
                                    FirstFailure(pre, call.events) - 1)
        /\ HistoryKept
        /\ map.dirty = ev1.before.dirty

\* a batch failed at its second sub-operation after the first one changed
\* the document, with an entry waiting in the redo buffer
C27_Witness ==
    /\ BatchHandled
    /\ FirstFailure(pre, call.events) = 2
    /\ map.levels # pre
    /\ redo_buffer # <<>>

\* C28: the undo buffer and the redo buffer together never hold more than
\* UNDO_BUFFER_SIZE entries; in particular a Redo, which pushes onto the
\* undo buffer without a capacity test, never makes it exceed the capacity.
C28_BuffersWithinCapacity ==
    /\ Len(undo_buffer) + Len(redo_buffer) <= UNDO_BUFFER_SIZE
    /\ Len(undo_buffer) <= UNDO_BUFFER_SIZE

\* a Redo pushed the entry that filled the undo buffer
C28_Witness ==
    /\ ev1.kind = "Redo"
    /\ ev1.ok
    /\ Len(undo_buffer) = UNDO_BUFFER_SIZE
    /\ Len(ev1.before.undo_buffer) = UNDO_BUFFER_SIZE - 1

\* the last entry of a buffer, and the buffer without it (pop_back)
Back(buffer) == buffer[Len(buffer)]
PopBack(buffer) == SubSeq(buffer, 1, Len(buffer) - 1)

\* the Undo handled last popped an entry and failed to apply it
FailedUndo ==
    ev1.kind = "Undo" /\ ~ev1.ok /\ ev1.before.undo_buffer # <<>>

\* the Redo handled last popped an entry and failed to apply it
FailedRedo ==
    ev1.kind = "Redo" /\ ~ev1.ok /\ ev1.before.redo_buffer # <<>>

\* the phase and the dirty flag are the ones before the event handled last,
\* and so are the rooms unless the entry was a batch
OnlyEntryDropped(entry) ==
    /\ event_phase = ev1.before.event_phase
    /\ map.dirty = ev1.before.dirty
    /\ entry.type # "Batched" => map.levels = pre

\* C29: when applying the entry popped by Undo fails, the entry is
\* discarded: the undo buffer is one entry shorter and the redo buffer, the
\* phase and the dirty flag are unchanged; symmetrically for a failing Redo.
C29_FailedUndoRedoDropsEntry ==
    /\ FailedUndo =>
          /\ undo_buffer = PopBack(ev1.before.undo_buffer)
          /\ redo_buffer = ev1.before.redo_buffer
          /\ OnlyEntryDropped(Back(ev1.before.undo_buffer))
    /\ FailedRedo =>
          /\ redo_buffer = PopBack(ev1.before.redo_buffer)
          /\ undo_buffer = ev1.before.undo_buffer
          /\ OnlyEntryDropped(Back(ev1.before.redo_buffer))

\* an Undo failed while a phase was current
C29_Witness ==
    /\ FailedUndo
    /\ event_phase # NullPhase

(***************************************************************************)
(* The map an event is addressed to.  One map, "m", is loaded; an event    *)
(* names a map or leaves it to the current map of the application.         *)
(***************************************************************************)
\* map.or_else(|| self.current_map_id())
target_map(map_id, current_map_id) ==
    IF map_id # None THEN map_id ELSE current_map_id

\* self.loaded_maps.get_mut(&map) on the target (None: the handler returns)
loaded_state(loaded_maps, target) ==
    IF target = None THEN None
    ELSE IF target.some \in DOMAIN loaded_maps
         THEN Some(loaded_maps[target.some])
    ELSE None

\* what an event may carry as its map, and what the current map may be
MapAddresses == {None, Some("m"), Some("x")}

\* the kinds of map event
MapEventKinds == {"Action", "Undo", "Redo", "Save"}

\* an event of any kind whose target is no loaded map: the handler returns
\* before it looks at the event
UnloadedMapEvent ==
    /\ steps < MaxSteps
    /\ \E map_id \in MapAddresses, current_map_id \in MapAddresses,
          kind \in MapEventKinds :
          /\ loaded_state([id \in {"m"} |-> St],
                          target_map(map_id, current_map_id)) = None
          /\ Remember(Record("Unloaded", FALSE, NullPhase, None, FALSE))
    /\ UNCHANGED <<map, undo_buffer, redo_buffer, event_phase, saved, event,
                   run, since_undo, issued, call, ret, ui_vars>>

AddressedNext == EmitAction \/ Undo \/ Redo \/ UnloadedMapEvent

AddressedSpec == Init /\ [][AddressedNext]_vars

\* the event handled last found nothing to do: an Undo on an empty undo
\* buffer, a Redo on an empty redo buffer, or an event for an unloaded map
NothingToDo ==
    \/ ev1.kind = "Undo" /\ ev1.before.undo_buffer = <<>>
    \/ ev1.kind = "Redo" /\ ev1.before.redo_buffer = <<>>
    \/ ev1.kind = "Unloaded"

\* C30: Undo with an empty undo buffer, Redo with an empty redo buffer and
\* any event for a map that is not loaded change nothing: the rooms, both
\* buffers, the phase (it is not reset to null) and the dirty flag stay.
C30_NothingToDoChangesNothing ==
    NothingToDo => NothingChanged

\* a Redo found the redo buffer empty while a phase was current and the map
\* was dirty
C30_Witness ==
    /\ ev1.kind = "Redo"
    /\ ev1.before.redo_buffer = <<>>
    /\ event_phase # NullPhase
    /\ map.dirty
    /\ undo_buffer # <<>>

(***************************************************************************)
(* Further properties of the room events of AppState::apply.               *)
(***************************************************************************)
\* the lists and tile grids of a room
RoomParts ==
    {"entities", "triggers", "fg_decals", "bg_decals",
     "fg_tiles", "bg_tiles", "object_tiles"}

\* the event is an entity or decal operation on a room that exists
ListEventApplied ==
    /\ ret # None
    /\ RoomExists
    /\ call.event.type \in {"EntityAdd", "EntityUpdate", "EntityRemove",
                            "DecalAdd", "DecalUpdate", "DecalRemove"}

\* the list the flag of an entity or decal operation selects
FlaggedList ==
    IF call.event.type \in {"EntityAdd", "EntityUpdate", "EntityRemove"}
    THEN (IF call.event.trigger THEN "triggers" ELSE "entities")
    ELSE (IF call.event.fg THEN "fg_decals" ELSE "bg_decals")

\* C31: an entity operation changes only the entities list (trigger=false)
\* or the triggers list (trigger=true) of the room it addresses, a decal
\* operation only fg_decals (fg=true) or bg_decals (fg=false); the other
\* lists, the tile grids and every other room are unchanged (the render
\* cache flag of the room and the dirty flag of the map aside).
C31_OnlyFlaggedListChanges ==
    ListEventApplied =>
        /\ DOMAIN ret.loaded_maps = DOMAIN call.loaded_maps
        /\ DOMAIN ret.loaded_maps[call.event.map].levels
             = DOMAIN call.loaded_maps[call.event.map].levels
        /\ \A i \in DOMAIN call.loaded_maps[call.event.map].levels :
              IF i = call.event.room + 1
              THEN \A part \in RoomParts \ {FlaggedList} :
                      ret.loaded_maps[call.event.map].levels[i][part]
                        = call.loaded_maps[call.event.map].levels[i][part]
              ELSE ret.loaded_maps[call.event.map].levels[i]
                     = call.loaded_maps[call.event.map].levels[i]

\* a trigger was added to the first room of a map of two rooms
C31_Witness ==
    /\ ListEventApplied
    /\ call.event.type = "EntityAdd"
    /\ call.event.trigger
    /\ call.event.room = 0
    /\ Len(call.loaded_maps["m"].levels) = 2
    /\ ret.loaded_maps["m"].levels[1].triggers
         # call.loaded_maps["m"].levels[1].triggers

\* the event is a tile edit on a room that exists
TileEventApplied ==
    /\ ret # None
    /\ RoomExists
    /\ call.event.type \in {"TileUpdate", "ObjectTileUpdate"}

\* the grid a tile edit addresses
AddressedGrid ==
    IF call.event.type = "ObjectTileUpdate" THEN "object_tiles"
    ELSE IF call.event.fg THEN "fg_tiles" ELSE "bg_tiles"

\* the room a room event addresses, in the given loaded_maps
AddressedRoom(loaded_maps) ==
    loaded_maps[call.event.map].levels[call.event.room + 1]

\* C32: a TileUpdate or ObjectTileUpdate sets map.dirty and clears the
\* room's render_cache_valid exactly when the patch changed a cell of the
\* addressed grid; a patch that changes no cell leaves both flags (and the
\* whole document) as they were.
C32_TileFlagsFollowChange ==
    TileEventApplied =>
        IF AddressedRoom(ret.loaded_maps)[AddressedGrid]
             # AddressedRoom(call.loaded_maps)[AddressedGrid]
        THEN /\ ret.loaded_maps[call.event.map].dirty
             /\ ~AddressedRoom(ret.loaded_maps).render_cache_valid
        ELSE ret.loaded_maps = call.loaded_maps

\* a patch that writes the tile a cell already holds, on a clean map whose
\* render cache was valid
C32_Witness ==
    /\ TileEventApplied
    /\ call.event.type = "TileUpdate"
    /\ call.event.data.tiles = <<"0">>
    /\ ~call.loaded_maps["m"].dirty
    /\ AddressedRoom(call.loaded_maps).render_cache_valid
    /\ ~ret.loaded_maps["m"].dirty
    /\ AddressedRoom(ret.loaded_maps).render_cache_valid

(***************************************************************************)
(* The application shell: tabs, loaded maps and modules.  app is the       *)
(* AppState; the last tab event is kept in call.                           *)
(***************************************************************************)
\* usize::MAX, the value of poison_tab that names no tab
usize_MAX == 2147483647

\* AppTab::CelesteOverview, AppTab::ProjectOverview(module), AppTab::Map(MapTab)
AppTab_CelesteOverview == [kind |-> "CelesteOverview", id |-> ""]
AppTab_ProjectOverview(module) == [kind |-> "ProjectOverview", id |-> module]
AppTab_Map(id) == [kind |-> "Map", id |-> id]

\* the fields of AppState that the tab events and garbage_collect use
AppState(tabs, current_tab, poison_tab, loaded_maps, lookup, modules) ==
    [tabs |-> tabs, current_tab |-> current_tab, poison_tab |-> poison_tab,
     loaded_maps |-> loaded_maps, loaded_maps_lookup |-> lookup,
     modules |-> modules]

\* Vec::retain with the indices (from 1) of the elements to keep
retain(v, kept) ==
    [j \in 1..Cardinality(kept) |->
        v[CHOOSE i \in kept : Cardinality({k \in kept : k < i}) = j - 1]]

\* HashMap::retain: the map without the keys that fail the test
retain_keys(h, kept) == [k \in DOMAIN h \cap kept |-> h[k]]

\* the closure of garbage_collect on the tab at index idx (from 0)
gc_keeps(a, idx) ==
    IF idx = a.poison_tab THEN FALSE
    ELSE LET tab == a.tabs[idx + 1]
         IN CASE tab.kind = "ProjectOverview" -> tab.id \in a.modules
              [] tab.kind = "Map" ->
                    a.loaded_maps[tab.id].path.module \in a.modules
              [] OTHER -> TRUE

\* self.current_tab.saturating_sub(current_delta)
saturating_sub(x, y) == IF x >= y THEN x - y ELSE 0

\* a collection that lets current_tab be where it was
gc_tabs_keepindex(a, kept, current_delta) ==
    [a EXCEPT !.tabs = retain(a.tabs, kept), !.poison_tab = usize_MAX]

\* the first half of garbage_collect: the tabs that stay, the current tab
\* moved back by the number of tabs removed at or before it
gc_tabs(a, kept, current_delta) ==
    [a EXCEPT !.tabs = retain(a.tabs, kept),
              !.current_tab = saturating_sub(a.current_tab, current_delta),
              !.poison_tab = usize_MAX]

\* the ids of the maps that have a tab
open_maps(tabs) == {tabs[i].id : i \in {j \in DOMAIN tabs : tabs[j].kind = "Map"}}

\* a collection that forgets the maps but keeps their lookup entries
gc_maps_keeplookup(a) ==
    [a EXCEPT !.loaded_maps = retain_keys(a.loaded_maps, open_maps(a.tabs))]

\* the second half of garbage_collect: the maps with a tab stay loaded
gc_maps(a) ==
    [a EXCEPT !.loaded_maps = retain_keys(a.loaded_maps, open_maps(a.tabs)),
              !.loaded_maps_lookup =
                  retain_keys(a.loaded_maps_lookup,
                              {p \in DOMAIN a.loaded_maps_lookup :
                                  a.loaded_maps_lookup[p] \in open_maps(a.tabs)})]

\* AppState::garbage_collect
garbage_collect(a) ==
    gc_maps(gc_tabs(a,
                    {i \in DOMAIN a.tabs : gc_keeps(a, i - 1)},
                    Cardinality({i \in DOMAIN a.tabs :
                                    ~gc_keeps(a, i - 1) /\ a.current_tab >= i - 1})))

\* a map as it arrives from the loader: its id, its path and a MapState
\* with an empty history
LoadedMap(id, module) ==
    [id |-> id,
     path |-> [module |-> module, sid |-> id],
     state |-> MapState([levels |-> <<Level(<<>>, <<>>,
                                            [i \in 1..RoomWidth |-> "0"], 1)>>,
                         dirty |-> FALSE],
                        <<>>, <<>>, NullPhase)]

\* AppEvent::Load: a map that is not loaded yet gets a tab, which becomes
\* the current one; the map is inserted (again) under its id
apply_Load(a, m) ==
    LET t == IF m.id \notin DOMAIN a.loaded_maps
             THEN [a EXCEPT !.current_tab = Len(a.tabs),
                            !.tabs = Append(a.tabs, AppTab_Map(m.id))]
             ELSE a
    IN [t EXCEPT !.loaded_maps =
                    (m.id :> [path |-> m.path, state |-> m.state]) @@ a.loaded_maps]

\* AppEvent::LoadMap { path, map }: the id of the map is entered in
\* loaded_maps_lookup under its path
register_path(a, m) ==
    [a EXCEPT !.loaded_maps_lookup = (m.path :> m.id) @@ a.loaded_maps_lookup]

\* AppEvent::SelectTab
apply_SelectTab(a, idx) ==
    IF idx < Len(a.tabs) THEN [a EXCEPT !.current_tab = idx] ELSE a

\* self.tabs.remove(idx) and the current tab after it
remove_tab(a, idx) ==
    LET tabs == retain(a.tabs, DOMAIN a.tabs \ {idx + 1})
    IN [a EXCEPT !.tabs = tabs,
                 !.current_tab =
                     IF (a.current_tab > idx \/ a.current_tab >= Len(tabs))
                        /\ a.current_tab > 0
                     THEN a.current_tab - 1 ELSE a.current_tab]

\* AppEvent::CloseTab (Vec::remove panics on an index past the end)
apply_CloseTab(a, idx) == garbage_collect(remove_tab(a, idx))

\* the maps the loader delivers and the modules they belong to
MapsOnDisk == {LoadedMap("a", "mod1"), LoadedMap("b", "mod2")}

\* the tab indices an event may carry
TabIndices == 0..3

\* AppState::new
ShellInit ==
    /\ NoMapLoaded
    /\ app = AppState(<<AppTab_CelesteOverview>>, 0, usize_MAX, <<>>, <<>>,
                      {"mod1", "mod2"})
    /\ call = None
    /\ ret = None
    /\ widget = None
    /\ tool = None

\* what a tab event leaves alone
shell_frame ==
    <<map, undo_buffer, redo_buffer, event_phase, saved, event, ev1, ev2, ev3,
      pre, run, since_undo, issued, ret, widget, tool>>

\* the handler of a tab event ran: e is the event, with the AppState as it
\* was before
TabEvent(e, after) ==
    /\ steps < MaxSteps
    /\ app' = after
    /\ call' = [e EXCEPT !.before = app]
    /\ steps' = steps + 1
    /\ UNCHANGED shell_frame

Load ==
    \E m \in MapsOnDisk :
        TabEvent([type |-> "Load", id |-> m.id, before |-> None],
                 register_path(apply_Load(app, m), m))

SelectTab ==
    \E idx \in TabIndices :
        TabEvent([type |-> "SelectTab", idx |-> idx, before |-> None],
                 apply_SelectTab(app, idx))

CloseTab ==
    \E idx \in TabIndices :
        /\ idx < Len(app.tabs)
        /\ TabEvent([type |-> "CloseTab", idx |-> idx, before |-> None],
                    apply_CloseTab(app, idx))

\* the map of the current tab is edited: a tile is painted
EditMap ==
    /\ app.current_tab < Len(app.tabs)
    /\ app.tabs[app.current_tab + 1].kind = "Map"
    /\ \E id \in {app.tabs[app.current_tab + 1].id} :
          TabEvent([type |-> "Edit", id |-> id, before |-> None],
                   [app EXCEPT !.loaded_maps[id].state =
                       MapEvent_Action(@, MapID_action(NullPhase,
                           TileUpdate(0, <<0, 0>>, TileGrid(<<"a">>, 1)))).st])

ShellNext == Load \/ SelectTab \/ CloseTab \/ EditMap

ShellSpec == ShellInit /\ [][ShellNext]_vars

\* the tab the CloseTab handled last removed
ClosedTab == call.before.tabs[call.idx + 1]

\* the event handled last closed the tab of a map
MapTabClosed ==
    /\ call # None
    /\ call.type = "CloseTab"
    /\ ClosedTab.kind = "Map"

\* C33: a loaded map lives exactly as long as a tab for it is open: the keys
\* of loaded_maps are the map ids of the open Map tabs, loaded_maps_lookup
\* refers only to loaded maps, and closing the tab of a map discards its
\* document together with its undo and redo history.
C33_MapsLiveWithTabs ==
    /\ DOMAIN app.loaded_maps
         = {app.tabs[i].id : i \in {j \in DOMAIN app.tabs : app.tabs[j].kind = "Map"}}
    /\ \A p \in DOMAIN app.loaded_maps_lookup :
          app.loaded_maps_lookup[p] \in DOMAIN app.loaded_maps
    /\ MapTabClosed => ClosedTab.id \notin DOMAIN app.loaded_maps

\* the tab of an edited map was closed while another map stayed open
C33_Witness ==
    /\ MapTabClosed
    /\ call.before.loaded_maps[ClosedTab.id].state.undo_buffer # <<>>
    /\ app.loaded_maps # <<>>

(***************************************************************************)
(* Calls of garbage_collect on the states the shell can be in.             *)
(***************************************************************************)
\* the most tabs open at once
MaxTabs == 3

\* the tabs that can be open: each at most once
OpenableTabs ==
    {AppTab_CelesteOverview, AppTab_ProjectOverview("mod1"),
     AppTab_ProjectOverview("mod2"), AppTab_Map("a"), AppTab_Map("b")}

\* the rows of tabs: one to MaxTabs tabs, no tab twice
TabRows ==
    {tabs \in UNION {[1..n -> OpenableTabs] : n \in 1..MaxTabs} :
        \A i, j \in DOMAIN tabs : tabs[i] = tabs[j] => i = j}

\* both maps loaded, with their lookup entries
BothMapsLoaded ==
    [id \in {"a", "b"} |->
        [path |-> LoadedMap(id, IF id = "a" THEN "mod1" ELSE "mod2").path,
         state |-> LoadedMap(id, "mod1").state]]

BothMapsLookup ==
    [p \in {BothMapsLoaded[id].path : id \in {"a", "b"}} |-> p.sid]

\* the states garbage_collect may find: any row of tabs with one of them
\* current, a poisoned index or none, and modules that may have been removed
GcCalls ==
    {[fn |-> "garbage_collect",
      app |-> AppState(tabs, current_tab, poison_tab, BothMapsLoaded,
                       BothMapsLookup, modules)] :
        tabs \in TabRows, current_tab \in 0..(MaxTabs - 1),
        poison_tab \in (0..MaxTabs) \cup {usize_MAX},
        modules \in SUBSET {"mod1", "mod2"}}

GcInit ==
    /\ NoMapLoaded
    /\ call \in {c \in GcCalls : c.app.current_tab < Len(c.app.tabs)}
    /\ ret = None
    /\ NoUi

CollectGarbage ==
    /\ ret = None
    /\ ret' = [app |-> garbage_collect(call.app)]
    /\ UNCHANGED <<call, hist_vars>>

GcNext == CollectGarbage

GcSpec == GcInit /\ [][GcNext]_vars

\* the tab at position i (from 1) is to stay: it is not the poisoned one and
\* its module exists
Survives(i) ==
    /\ i - 1 # call.app.poison_tab
    /\ call.app.tabs[i].kind = "ProjectOverview" =>
          call.app.tabs[i].id \in call.app.modules
    /\ call.app.tabs[i].kind = "Map" =>
          call.app.loaded_maps[call.app.tabs[i].id].path.module \in call.app.modules

\* the position (from 1) of a surviving tab among the survivors
NewPosition(i) == i - Cardinality({k \in 1..i : ~Survives(k)})

\* C34: garbage_collect removes the tab at index poison_tab and every tab
\* whose module no longer exists and keeps the others in order; if the tab
\* that was current survives, current_tab is its new index; current_tab is
\* below tabs.len() whenever a tab survives; poison_tab is usize::MAX.
C34_CollectKeepsCurrent ==
    ret # None =>
        /\ Len(ret.app.tabs) = Cardinality({i \in DOMAIN call.app.tabs : Survives(i)})
        /\ \A i \in DOMAIN call.app.tabs :
              Survives(i) => ret.app.tabs[NewPosition(i)] = call.app.tabs[i]
        /\ Survives(call.app.current_tab + 1) =>
              ret.app.current_tab + 1 = NewPosition(call.app.current_tab + 1)
        /\ ret.app.tabs # <<>> => ret.app.current_tab < Len(ret.app.tabs)
        /\ ret.app.poison_tab = usize_MAX

\* the current tab survived and moved: the tab before it was poisoned and
\* a tab after it lost its module
C34_Witness ==
    /\ ret # None
    /\ call.app.current_tab = 1
    /\ call.app.poison_tab = 0
    /\ Len(call.app.tabs) = 3
    /\ Survives(2)
    /\ ~Survives(3)
    /\ ret.app.current_tab = 0

(***************************************************************************)
(* The Delete Project controls of the project tab.  widget is the          *)
(* DeleteState together with the text of the confirmation textbox, which   *)
(* exists while the confirmation is shown; ret tells whether the last      *)
(* press of the confirm button emitted ProjectEvent::Delete.               *)
(***************************************************************************)
\* the longest text typed into the textbox
MaxTyped == 3

\* the modules a project tab may show: module.everest_metadata.name and
\* whether module_kind() is CelesteModuleKind::Directory
ShownModules ==
    [module_name : {<<"m", "o">>, <<"o">>}, editing : BOOLEAN]

\* the texts the user may type
TypedTexts == UNION {[1..n -> {"m", "o", "x"}] : n \in 0..MaxTyped}

DeleteState(started, validated, text) ==
    [started |-> started, validated |-> validated, text |-> text]

\* build_controls(cx, project): DeleteState { started: false, validated:
\* false }.build(cx) for a directory module, no controls otherwise
DeleteInit ==
    /\ NoMapLoaded
    /\ call \in ShownModules
    /\ widget = IF call.editing THEN DeleteState(FALSE, FALSE, <<>>) ELSE None
    /\ ret = None
    /\ app = None
    /\ tool = None

\* what the Delete Project controls leave alone
delete_frame == <<hist_vars_of_map, call, app, tool>>

\* the "Delete Project" label of the idle view is pressed: DeleteEvent::Start;
\* the binding on `started` builds the confirmation with an empty textbox
DeleteStart ==
    /\ widget # None
    /\ ~widget.started
    /\ widget' = [widget EXCEPT !.started = TRUE, !.text = <<>>]
    /\ ret' = None
    /\ UNCHANGED delete_frame

\* "Cancel" is pressed: DeleteEvent::Cancel; the binding builds the idle view
DeleteCancel ==
    /\ widget # None
    /\ widget.started
    /\ widget' = [widget EXCEPT !.started = FALSE, !.text = <<>>]
    /\ ret' = None
    /\ UNCHANGED delete_frame

\* the textbox is edited: on_edit emits DeleteEvent::Validate(value == module_name)
DeleteEdit ==
    /\ widget # None
    /\ widget.started
    /\ \E value \in TypedTexts :
          widget' = [widget EXCEPT !.text = value,
                                   !.validated = (value = call.module_name)]
    /\ ret' = None
    /\ UNCHANGED delete_frame

\* the "Delete Project" label of the confirmation is pressed:
\* ProjectEvent::Delete is emitted if DeleteState::validated
DeleteConfirm ==
    /\ widget # None
    /\ widget.started
    /\ ret' = [emitted |-> widget.validated]
    /\ UNCHANGED <<widget, delete_frame>>

DeleteNext == DeleteStart \/ DeleteCancel \/ DeleteEdit \/ DeleteConfirm

DeleteSpec == DeleteInit /\ [][DeleteNext]_vars

\* C35: ProjectEvent::Delete is emitted only when the text currently typed
\* in the confirmation textbox equals the name of the module, whatever
\* Start, Cancel and text edits came before.
C35_DeleteNeedsTypedName ==
    (ret # None /\ ret.emitted) => widget.text = call.module_name

(***************************************************************************)
(* ProjectEvent::NewMap.  A module is its kind, the file name of its       *)
(* filesystem root and the sids of its maps; texts are character           *)
(* sequences.                                                              *)
(***************************************************************************)
\* the most maps a module holds before the event
MaxMaps == 3

\* format!("{}/{}/untitled-{}", user_name, file_name, new_id)
format_sid(user_name, file_name, new_id) ==
    user_name \o <<"/">> \o file_name \o <<"/">>
        \o <<"u", "n", "t", "i", "t", "l", "e", "d", "-">>
        \o i32_to_string(new_id)

\* a numbering that takes the count of the maps plus one
new_sid_bycount(maps, user_name, file_name, new_id) ==
    format_sid(user_name, file_name, Len(maps) + 1)

\* the loop 'outer2, entered with the new_id tried last: the first sid
\* after it that no map of the module has
RECURSIVE new_sid(_, _, _, _)
new_sid(maps, user_name, file_name, new_id) ==
    IF \E i \in DOMAIN maps : maps[i] = format_sid(user_name, file_name, new_id + 1)
    THEN new_sid(maps, user_name, file_name, new_id + 1)
    ELSE format_sid(user_name, file_name, new_id + 1)

\* state.create_map(new_sid): the module lists the new map
create_map(state, sid) == [state EXCEPT !.maps = Append(@, sid)]

\* the module after the event, and the path of the AppEvent::OpenMap
\* emitted for the map made
new_map_made(state, sid) ==
    [state |-> create_map(state, sid), emitted |-> Some(sid)]

\* ProjectEvent::NewMap
apply_NewMap(state, user_name) ==
    IF state.kind # "Directory"
    THEN [state |-> state, emitted |-> None]
    ELSE new_map_made(state, new_sid(state.maps, user_name, state.file_name, 0))

\* the sids a module may hold already
HeldSids ==
    {format_sid(<<"u">>, <<"d">>, n) : n \in 1..3}
    \cup {format_sid(<<"u">>, <<"d">>, 1) \o <<"0">>,
          format_sid(<<"u">>, <<"e">>, 1),
          <<"u", "/", "d", "/", "a">>}

NewMapCalls ==
    {[user_name |-> <<"u">>,
      state |-> [kind |-> kind, file_name |-> <<"d">>, maps |-> maps]] :
        kind \in {"Directory", "Zip", "Builtin"},
        maps \in UNION {[1..n -> HeldSids] : n \in 0..MaxMaps}}

NewMapInit ==
    /\ NoMapLoaded
    /\ call \in NewMapCalls
    /\ ret = None
    /\ NoUi

NewMap ==
    /\ ret = None
    /\ ret' = apply_NewMap(call.state, call.user_name)
    /\ UNCHANGED <<call, hist_vars>>

NewMapNext == NewMap

NewMapSpec == NewMapInit /\ [][NewMapNext]_vars

\* the sid numbered n is held by the module of the call
Held(n) ==
    \E i \in DOMAIN call.state.maps :
        call.state.maps[i] = format_sid(call.user_name, call.state.file_name, n)

\* the smallest positive number whose sid the module does not hold
FirstFree == CHOOSE n \in 1..(MaxMaps + 2) : ~Held(n) /\ \A k \in 1..(n - 1) : Held(k)

\* C36: NewMap on a directory-loaded module creates the map
\* "<user>/<dir>/untitled-N" with N the smallest positive number whose sid
\* is not in the map list of the module, so the new sid differs from every
\* existing one, and emits OpenMap for it; on any other module no map is
\* created and no OpenMap is emitted.
C36_NewMapTakesFirstFree ==
    ret # None =>
        IF call.state.kind = "Directory"
        THEN /\ ret.emitted
                  = Some(format_sid(call.user_name, call.state.file_name, FirstFree))
             /\ \A i \in DOMAIN call.state.maps :
                   call.state.maps[i] # ret.emitted.some
             /\ ret.state.maps = Append(call.state.maps, ret.emitted.some)
        ELSE ret.state = call.state /\ ret.emitted = None

\* untitled-1 and untitled-3 were taken and untitled-2 was made
C36_Witness ==
    /\ ret # None
    /\ call.state.kind = "Directory"
    /\ Held(1) /\ ~Held(2) /\ Held(3)
    /\ ret.emitted = Some(format_sid(<<"u">>, <<"d">>, 2))

(***************************************************************************)
(* build_modules_lookup.  A module is its everest_metadata.name and its    *)
(* filesystem_root (None for the built-in module, else the file name of    *)
(* the root as a text); modules is a map from ModuleID to module and is    *)
(* visited in an order the hash map decides.                               *)
(***************************************************************************)
\* the most modules loaded
MaxModules == 3

\* the positions of the dots of a file name that start an extension (a dot
\* at the very start does not)
ext_dots(file_name) == {i \in DOMAIN file_name : i > 1 /\ file_name[i] = "."}

\* Path::extension(): the text after the last dot, if there is one
extension(file_name) ==
    IF ext_dots(file_name) = {} THEN None
    ELSE Some(SubSeq(file_name,
                     (CHOOSE i \in ext_dots(file_name) :
                         \A j \in ext_dots(file_name) : j <= i) + 1,
                     Len(file_name)))

\* root.map(|root| root.extension().unwrap_or("")): None for no root
ext_of(filesystem_root) ==
    IF filesystem_root = None THEN None
    ELSE IF extension(filesystem_root.some) = None THEN Some(<<>>)
    ELSE extension(filesystem_root.some)

\* step_modules_lookup: a vacant name takes the id; an occupied name takes
\* it only when the existing module is a zip and the new one has no extension
step_modules_lookup(lookup, modules, id, module) ==
    IF module.name \notin DOMAIN lookup
    THEN (module.name :> id) @@ lookup
    ELSE IF ext_of(modules[lookup[module.name]].filesystem_root) = Some(<<"z", "i", "p">>)
            /\ ext_of(module.filesystem_root) = Some(<<>>)
         THEN (module.name :> id) @@ lookup
         ELSE lookup

\* the loop of build_modules_lookup over the ids in the order they are
\* visited, from the k-th on
RECURSIVE modules_lookup_from(_, _, _, _)
modules_lookup_from(lookup, modules, order, k) ==
    IF k > Len(order) THEN lookup
    ELSE modules_lookup_from(
             step_modules_lookup(lookup, modules, order[k], modules[order[k]]),
             modules, order, k + 1)

\* build_modules_lookup(modules), visiting in the given order
build_modules_lookup(modules, order) ==
    modules_lookup_from(<<>>, modules, order, 1)

\* the roots a module may have: none (built in), a plain directory, a zip
\* file, a directory with a dot in its name
ModuleRoots ==
    {None, Some(<<"m">>), Some(<<"m", ".", "z", "i", "p">>),
     Some(<<"m", ".", "2">>)}

LoadableModules == [name : {"A", "B"}, filesystem_root : ModuleRoots]

\* the orders in which a hash map of n entries may be visited
Orders(n) == {o \in [1..n -> 1..n] : \A i, j \in 1..n : o[i] = o[j] => i = j}

LookupCalls ==
    UNION {[modules : [1..n -> LoadableModules], order : Orders(n)] :
              n \in 1..MaxModules}

LookupInit ==
    /\ NoMapLoaded
    /\ call \in LookupCalls
    /\ ret = None
    /\ NoUi

BuildModulesLookup ==
    /\ ret = None
    /\ ret' = [lookup |-> build_modules_lookup(call.modules, call.order)]
    /\ UNCHANGED <<call, hist_vars>>

LookupNext == BuildModulesLookup

LookupSpec == LookupInit /\ [][LookupNext]_vars

\* module_kind(): a module without a root is built in, one whose root has
\* the extension zip is a zip module, any other is a directory module
IsZipModule(module) == ext_of(module.filesystem_root) = Some(<<"z", "i", "p">>)
IsDirectoryModule(module) ==
    module.filesystem_root # None /\ ~IsZipModule(module)

\* the modules of the call are one directory module and one zip module of
\* the same name
DirectoryAndZipShareName ==
    /\ Len(call.modules) = 2
    /\ call.modules[1].name = call.modules[2].name
    /\ \E i, j \in 1..2 : /\ IsDirectoryModule(call.modules[i])
                          /\ IsZipModule(call.modules[j])

\* C37: when a directory module and a zip module share a name, the lookup
\* maps the name to the directory module, in whatever order the two are
\* visited.
C37_DirectoryWinsAnyOrder ==
    (ret # None /\ DirectoryAndZipShareName) =>
        IsDirectoryModule(call.modules[ret.lookup[call.modules[1].name]])

(***************************************************************************)
(* RoomTool.  tool is the RoomTool (status, current_selection,             *)
(* pending_selection) with the bounds of the rooms of the map it works     *)
(* on; ret is what the last call of event() matched and returned.  A       *)
(* point is <<x, y>>, a rectangle [x, y, w, h].                            *)
(***************************************************************************)
Rect(x, y, w, h) == [x |-> x, y |-> y, w |-> w, h |-> h]

\* rect_normalize: the same rectangle with sizes that are not negative
rect_normalize(r) ==
    Rect(IF r.w < 0 THEN r.x + r.w ELSE r.x, IF r.h < 0 THEN r.y + r.h ELSE r.y,
         IF r.w < 0 THEN -r.w ELSE r.w, IF r.h < 0 THEN -r.h ELSE r.h)

\* Rect::intersects
intersects(a, b) ==
    /\ a.x < b.x + b.w /\ a.x + a.w > b.x
    /\ a.y < b.y + b.h /\ a.y + a.h > b.y

\* Rect::contains(point)
contains(r, p) ==
    /\ r.x <= p[1] /\ p[1] < r.x + r.w
    /\ r.y <= p[2] /\ p[2] < r.y + r.h

\* rooms_in: the indices (from 0) of the rooms that meet the rectangle
rooms_in(levels, rect) ==
    {i - 1 : i \in {j \in DOMAIN levels : intersects(levels[j], rect_normalize(rect))}}

\* (map_pos_unsnapped / 8) * 8
snap(p) == <<i32_div(p[1], 8) * 8, i32_div(p[2], 8) * 8>>

SelectionStatus_None == [kind |-> "None"]
SelectionStatus_Selecting(ref_pos) == [kind |-> "Selecting", ref_pos |-> ref_pos]
SelectionStatus_CouldStartDragging(pt, unsn) ==
    [kind |-> "CouldStartDragging", pt |-> pt, unsn |-> unsn]
SelectionStatus_Dragging(pt, points) ==
    [kind |-> "Dragging", pointer_reference_point |-> pt,
     selection_reference_points |-> points]
SelectionStatus_Resizing(pt, sizes, side) ==
    [kind |-> "Resizing", pointer_reference_point |-> pt,
     selection_reference_sizes |-> sizes, side |-> side]

\* ResizeSide::from_sides, and ResizeSide::None
ResizeSide_from_sides(at_top, at_bottom, at_left, at_right) ==
    [top |-> at_top, bottom |-> at_bottom, left |-> at_left, right |-> at_right]
ResizeSide_None == ResizeSide_from_sides(FALSE, FALSE, FALSE, FALSE)

\* the side of the room under the pointer, for a selected room idx
side_at(rect, pointer) ==
    ResizeSide_from_sides(pointer[2] < rect.y + 2,
                          pointer[2] >= rect.y + rect.h - 2,
                          pointer[1] < rect.x + 2,
                          pointer[1] >= rect.x + rect.w - 2)

\* can_resize: the sides the loop over current_selection may return (the
\* first selected room that contains the pointer, in the order of the set)
can_resize(t, pointer) ==
    IF \E idx \in t.current_selection :
          idx + 1 \in DOMAIN t.levels /\ contains(t.levels[idx + 1], pointer)
    THEN {side_at(t.levels[idx + 1], pointer) :
             idx \in {i \in t.current_selection :
                         i + 1 \in DOMAIN t.levels /\ contains(t.levels[i + 1], pointer)}}
    ELSE {ResizeSide_None}

\* the selected rooms that exist
selected_rooms(t) == {idx \in t.current_selection : idx + 1 \in DOMAIN t.levels}

\* a begin_dragging that starts a drag only on a side of a room
begin_dragging_onlyresize(t, pt, side) ==
    IF side # ResizeSide_None
    THEN [t EXCEPT !.status = SelectionStatus_Resizing(
                       pt, [idx \in selected_rooms(t) |-> t.levels[idx + 1]], side)]
    ELSE t

\* begin_dragging, with the side can_resize returned
begin_dragging(t, pt, side) ==
    IF side # ResizeSide_None
    THEN [t EXCEPT !.status = SelectionStatus_Resizing(
                       pt, [idx \in selected_rooms(t) |-> t.levels[idx + 1]], side)]
    ELSE [t EXCEPT !.status = SelectionStatus_Dragging(
                       pt, [idx \in selected_rooms(t) |->
                               <<t.levels[idx + 1].x, t.levels[idx + 1].y>>])]

AppEvent_MoveRoom(room, bounds) == [type |-> "MoveRoom", room |-> room, bounds |-> bounds]

\* nudge, while dragging
nudge(t, v) ==
    {AppEvent_MoveRoom(room,
        Rect(t.status.selection_reference_points[room][1] + v[1],
             t.status.selection_reference_points[room][2] + v[2],
             t.levels[room + 1].w, t.levels[room + 1].h)) :
        room \in t.current_selection}

\* i32::max
max(a, b) == IF a >= b THEN a ELSE b

\* new_rect of resize: the origin moved by pos_vec, the size changed by
\* size_vec and then raised to 8 where it is smaller
resized(start_rect, side, v) ==
    Rect(start_rect.x + (IF side.left THEN v[1] ELSE 0),
         start_rect.y + (IF side.top THEN v[2] ELSE 0),
         max(start_rect.w + (IF side.left THEN -v[1]
                             ELSE IF side.right THEN v[1] ELSE 0), 8),
         max(start_rect.h + (IF side.top THEN -v[2]
                             ELSE IF side.bottom THEN v[2] ELSE 0), 8))

\* resize, while resizing
resize(t, v) ==
    {AppEvent_MoveRoom(room,
        resized(t.status.selection_reference_sizes[room], t.status.side, v)) :
        room \in t.current_selection}

\* notify_selection
notify_selection(t) ==
    IF Cardinality(t.current_selection) = 1
    THEN {[type |-> "SelectRoom", idx |-> idx] : idx \in t.current_selection}
    ELSE {}

\* what event() hands back: the tool, the events returned, and whether the
\* arm marked unreachable!() was entered
Handled(t, events, unreachable) ==
    [tool |-> t, events |-> events, unreachable |-> unreachable]

\* WindowEvent::MouseUp(MouseButton::Left)
on_MouseUp(t) ==
    IF t.status.kind = "Selecting"
    THEN Handled([t EXCEPT !.current_selection = @ \cup t.pending_selection,
                           !.pending_selection = {},
                           !.status = SelectionStatus_None],
                 notify_selection([t EXCEPT !.current_selection =
                                                @ \cup t.pending_selection]),
                 FALSE)
    ELSE Handled([t EXCEPT !.status = SelectionStatus_None], {}, FALSE)

\* WindowEvent::MouseDown(MouseButton::Left) with room_at having found got
\* (a set: empty for no room, else the one room found)
on_MouseDown(t, unsn, got, shift) ==
    IF t.status.kind # "None" THEN Handled(t, {}, FALSE)
    ELSE IF got # {} /\ got \subseteq t.current_selection
    THEN Handled([t EXCEPT !.status =
                     SelectionStatus_CouldStartDragging(snap(unsn), unsn)],
                 {}, FALSE)
    ELSE IF shift
    THEN Handled([t EXCEPT !.status = SelectionStatus_Selecting(snap(unsn)),
                           !.pending_selection = IF got # {} THEN got ELSE @],
                 {}, FALSE)
    ELSE Handled([t EXCEPT !.status = SelectionStatus_Selecting(snap(unsn)),
                           !.pending_selection = IF got # {} THEN got ELSE @,
                           !.current_selection = {}],
                 {}, FALSE)

\* the match on self.status of the MouseMove arm
match_status(t, map_pos) ==
    CASE t.status.kind = "None" -> Handled(t, {}, FALSE)
      [] t.status.kind = "CouldStartDragging" -> Handled(t, {}, TRUE)
      [] t.status.kind = "Selecting" ->
            Handled([t EXCEPT !.pending_selection =
                        rooms_in(t.levels,
                                 Rect(t.status.ref_pos[1], t.status.ref_pos[2],
                                      map_pos[1] - t.status.ref_pos[1],
                                      map_pos[2] - t.status.ref_pos[2]))],
                    {}, FALSE)
      [] t.status.kind = "Dragging" ->
            Handled(t, nudge(t, <<map_pos[1] - t.status.pointer_reference_point[1],
                                  map_pos[2] - t.status.pointer_reference_point[2]>>),
                    FALSE)
      [] t.status.kind = "Resizing" ->
            Handled(t, resize(t, <<map_pos[1] - t.status.pointer_reference_point[1],
                                   map_pos[2] - t.status.pointer_reference_point[2]>>),
                    FALSE)

\* WindowEvent::MouseMove, with the side can_resize returns
on_MouseMove(t, unsn, side) ==
    match_status(IF t.status.kind = "CouldStartDragging"
                 THEN begin_dragging(t, t.status.pt, side)
                 ELSE t,
                 snap(unsn))

\* the map the tool works on: two rooms side by side
ToolLevels == <<Rect(0, 0, 16, 16), Rect(24, 0, 16, 16)>>

\* where the pointer may be (map_pos_unsnapped): on the left or top side
\* of a room, inside it, on its right or bottom side, and outside
Pointers == {1, 8, 15, 25, 48} \X {1, 8, 15, 24}

\* RoomTool::new(), on the map
RoomToolInit ==
    /\ NoMapLoaded
    /\ tool = [status |-> SelectionStatus_None, current_selection |-> {},
               pending_selection |-> {}, levels |-> ToolLevels]
    /\ call = None
    /\ ret = None
    /\ app = None
    /\ widget = None

\* what the tool leaves alone
tool_frame == <<hist_vars_of_map, call, app, widget>>

\* event() returned r for the named window event
ToolEvent(name, r) ==
    /\ tool' = r.tool
    /\ ret' = [event |-> name, was |-> tool.status, events |-> r.events,
               unreachable |-> r.unreachable]
    /\ UNCHANGED tool_frame

MouseUp == ToolEvent("MouseUp", on_MouseUp(tool))

MouseDown ==
    \E unsn \in Pointers, shift \in BOOLEAN :
       \E got \in IF rooms_in(tool.levels, Rect(unsn[1], unsn[2], 1, 1)) = {}
                  THEN {{}}
                  ELSE {{g} : g \in rooms_in(tool.levels, Rect(unsn[1], unsn[2], 1, 1))} :
          ToolEvent("MouseDown", on_MouseDown(tool, unsn, got, shift))

MouseMove ==
    \E unsn \in Pointers :
       \E side \in IF tool.status.kind = "CouldStartDragging"
                   THEN can_resize(tool, tool.status.unsn)
                   ELSE {ResizeSide_None} :
          ToolEvent("MouseMove", on_MouseMove(tool, unsn, side))

RoomToolNext == MouseUp \/ MouseDown \/ MouseMove

RoomToolSpec == RoomToolInit /\ [][RoomToolNext]_vars

\* C38: the CouldStartDragging arm of the MouseMove handler, marked
\* unreachable!(), is never entered: begin_dragging has replaced that status
\* by Dragging or Resizing before the status is matched.
C38_UnreachableArmNotEntered ==
    ret # None => ~ret.unreachable

\* a MouseMove found the status CouldStartDragging and left it Resizing
C38_Witness ==
    /\ ret # None
    /\ ret.event = "MouseMove"
    /\ ret.was.kind = "CouldStartDragging"
    /\ tool.status.kind = "Resizing"

\* the MouseMove handled last resized the selected rooms
ResizeEmitted ==
    /\ ret # None
    /\ ret.event = "MouseMove"
    /\ tool.status.kind = "Resizing"

\* C39: when the rooms are resized by a left or top side, every MoveRoom
\* emitted keeps the right, respectively bottom, edge of its room where it
\* was when the drag began, also when the size is raised to 8.
C39_OppositeEdgeStays ==
    ResizeEmitted =>
        \A e \in ret.events :
            /\ tool.status.side.left =>
                  e.bounds.x + e.bounds.w
                    = tool.status.selection_reference_sizes[e.room].x
                      + tool.status.selection_reference_sizes[e.room].w
            /\ tool.status.side.top =>
                  e.bounds.y + e.bounds.h
                    = tool.status.selection_reference_sizes[e.room].y
                      + tool.status.selection_reference_sizes[e.room].h

====
